---- MODULE Spec2Model ----
(***************************************************************************)
(* Verification model of the digisafe storage engine (linux/src/storage    *)
(* and linux/src/gui/state.rs): the TLV record codec, the in-memory vault, *)
(* the compress/encrypt/base64 envelope, the erasure-coded file, the       *)
(* load/save paths with their staging file, and the secret memory region.  *)
(*                                                                         *)
(* Byte strings are sequences of integers 0..255.  Fallible operations     *)
(* return a record [ok, v]; ok = FALSE stands for a Rust panic (a failed   *)
(* unwrap or an out-of-range slice).                                       *)
(***************************************************************************)
EXTENDS Integers, Sequences, FiniteSets, TLC

(***************************************************************************)
(* Byte-string helpers                                                     *)
(***************************************************************************)
Zeros(n) == [i \in 1..n |-> 0]

Repeat(b, n) == [i \in 1..n |-> b]

AllZero(s) == \A i \in 1..Len(s) : s[i] = 0

MinOf(S) == CHOOSE m \in S : \A o \in S : m <= o

MaxOf(S) == CHOOSE m \in S : \A o \in S : m >= o

\* u32::to_le_bytes
U32LE(n) == <<n % 256, (n \div 256) % 256, (n \div 65536) % 256, (n \div 16777216) % 256>>

\* u32::from_le_bytes
FromU32LE(b) == b[1] + 256 * b[2] + 65536 * b[3] + 16777216 * b[4]

\* str::from_utf8 accepts the string (the model's text is ASCII)
Utf8Valid(s) == \A i \in 1..Len(s) : s[i] < 128

(***************************************************************************)
(* String literals of the source, as ASCII                                 *)
(***************************************************************************)
STR_db_name == <<100, 98, 95, 110, 97, 109, 101>>

STR_nonce == <<110, 111, 110, 99, 101>>

STR_salt == <<115, 97, 108, 116>>

STR_created_ts == <<99, 114, 101, 97, 116, 101, 100, 95, 116, 115>>

STR_modified_ts == <<109, 111, 100, 105, 102, 105, 101, 100, 95, 116, 115>>

STR_db == <<100, 98>>

\* "password\x00"
PREFIX_password == <<112, 97, 115, 115, 119, 111, 114, 100, 0>>

\* "meta\x00"
PREFIX_meta == <<109, 101, 116, 97, 0>>

(***************************************************************************)
(* u64/u128 to_string and str::parse                                       *)
(***************************************************************************)
RECURSIVE to_string(_)
to_string(n) ==
    IF n < 10 THEN <<48 + n>>
    ELSE Append(to_string(n \div 10), 48 + (n % 10))

RECURSIVE ParseDigits(_, _)
ParseDigits(s, acc) ==
    IF s = <<>> THEN acc
    ELSE ParseDigits(Tail(s), acc * 10 + (Head(s) - 48))

parse(s) ==
    IF s # <<>> /\ \A i \in 1..Len(s) : s[i] \in 48..57
    THEN [ok |-> TRUE, v |-> ParseDigits(s, 0)]
    ELSE [ok |-> FALSE, v |-> 0]

(***************************************************************************)
(* atlas.rs: FieldAtlas, a BTreeMap<u8, bytes> and its TLV encoding        *)
(***************************************************************************)
EmptyMap == <<>>

MapSet(m, k, v) == [x \in DOMAIN m \cup {k} |-> IF x = k THEN v ELSE m[x]]

RECURSIVE FieldAtlas_deserialize_from(_, _, _)
FieldAtlas_deserialize_from(data, cursor, fields) ==
    IF cursor > Len(data) THEN [ok |-> TRUE, v |-> fields]
    ELSE IF cursor + 4 > Len(data) THEN [ok |-> FALSE, v |-> EmptyMap]
    ELSE LET field_type == data[cursor]
             len == FromU32LE(SubSeq(data, cursor + 1, cursor + 4))
         IN  IF cursor + 4 + len > Len(data) THEN [ok |-> FALSE, v |-> EmptyMap]
             ELSE FieldAtlas_deserialize_from(data, cursor + 5 + len,
                      MapSet(fields, field_type, SubSeq(data, cursor + 5, cursor + 4 + len)))

FieldAtlas_deserialize(data) == FieldAtlas_deserialize_from(data, 1, EmptyMap)

RECURSIVE FieldAtlas_serialize_keys(_, _)
FieldAtlas_serialize_keys(fields, keys) ==
    IF keys = {} THEN <<>>
    ELSE LET field_type == MinOf(keys)
         IN  <<field_type>> \o U32LE(Len(fields[field_type])) \o fields[field_type]
                 \o FieldAtlas_serialize_keys(fields, keys \ {field_type})

FieldAtlas_serialize(fields) == FieldAtlas_serialize_keys(fields, DOMAIN fields)

\* Option<&str>: [some, v]
FieldAtlas_get_str(fields, field_type) ==
    IF field_type \in DOMAIN fields /\ Utf8Valid(fields[field_type])
    THEN [some |-> TRUE, v |-> fields[field_type]]
    ELSE [some |-> FALSE, v |-> <<>>]

(***************************************************************************)
(* entry.rs: MetaEntry and PasswordEntry are FieldAtlas wrappers           *)
(***************************************************************************)
MetaField_Name == 1

MetaField_Value == 2

PasswordField_Name == 1

PasswordField_Username == 2

PasswordField_Password == 3

PasswordField_Note == 4

MetaEntry_new(name, value) ==
    MapSet(MapSet(EmptyMap, MetaField_Name, name), MetaField_Value, value)

\* get_name / get_value unwrap the field: absent is a panic
MetaEntry_get_name(e) ==
    LET r == FieldAtlas_get_str(e, MetaField_Name) IN [ok |-> r.some, v |-> r.v]

MetaEntry_get_value(e) ==
    LET r == FieldAtlas_get_str(e, MetaField_Value) IN [ok |-> r.some, v |-> r.v]

\* unwrap_or_default
PasswordEntry_get_name(e) == FieldAtlas_get_str(e, PasswordField_Name).v

PasswordEntry_get_password(e) == FieldAtlas_get_str(e, PasswordField_Password).v

PasswordEntry_new(name, password) ==
    MapSet(MapSet(EmptyMap, PasswordField_Name, name), PasswordField_Password, password)

(***************************************************************************)
(* atlas.rs: EntryAtlas, a BTreeMap<u32, (u8, bytes)>                      *)
(***************************************************************************)
EntryTag_Meta == 0

EntryTag_Password == 1

EntryAtlas_set(entries, id, entry_type, value) ==
    MapSet(entries, id, [tag |-> entry_type, value |-> value])

RECURSIVE EntryAtlas_deserialize_from(_, _, _, _)
EntryAtlas_deserialize_from(data, cursor, id, entries) ==
    IF cursor > Len(data) THEN [ok |-> TRUE, v |-> entries]
    ELSE IF cursor + 4 > Len(data) THEN [ok |-> FALSE, v |-> EmptyMap]
    ELSE LET entry_type == data[cursor]
             len == FromU32LE(SubSeq(data, cursor + 1, cursor + 4))
         IN  IF cursor + 4 + len > Len(data) THEN [ok |-> FALSE, v |-> EmptyMap]
             ELSE EntryAtlas_deserialize_from(data, cursor + 5 + len, id + 1,
                      EntryAtlas_set(entries, id, entry_type,
                                     SubSeq(data, cursor + 5, cursor + 4 + len)))

\* a decoder that numbers the records from 1
EntryAtlas_deserialize_from_one(data) == EntryAtlas_deserialize_from(data, 1, 1, EmptyMap)

EntryAtlas_deserialize(data) == EntryAtlas_deserialize_from(data, 1, 0, EmptyMap)

RECURSIVE EntryAtlas_serialize_keys(_, _)
EntryAtlas_serialize_keys(entries, keys) ==
    IF keys = {} THEN <<>>
    ELSE LET id == MinOf(keys)
         IN  <<entries[id].tag>> \o U32LE(Len(entries[id].value)) \o entries[id].value
                 \o EntryAtlas_serialize_keys(entries, keys \ {id})

EntryAtlas_serialize(entries) == EntryAtlas_serialize_keys(entries, DOMAIN entries)

(***************************************************************************)
(* database.rs: InteriorDatabase                                           *)
(***************************************************************************)
InteriorDatabase_default == [next_id |-> 0, entries |-> EmptyMap, index_by_name |-> EmptyMap]

\* an insertion that takes a new id for every call
InteriorDatabase_set_fresh(db, index_by_name_value, entry_type, value) ==
    [next_id |-> db.next_id + 1,
     entries |-> EntryAtlas_set(db.entries, db.next_id, entry_type, value),
     index_by_name |-> MapSet(db.index_by_name, index_by_name_value, db.next_id)]

\* the shared body of set_password_entry and set_meta_entry
InteriorDatabase_set(db, index_by_name_value, entry_type, value) ==
    LET is_new == index_by_name_value \notin DOMAIN db.index_by_name
        id == IF is_new THEN db.next_id ELSE db.index_by_name[index_by_name_value]
    IN  [next_id |-> IF is_new THEN db.next_id + 1 ELSE db.next_id,
         entries |-> EntryAtlas_set(db.entries, id, entry_type, value),
         index_by_name |-> IF is_new THEN MapSet(db.index_by_name, index_by_name_value, id)
                           ELSE db.index_by_name]

InteriorDatabase_set_password_entry(db, entry) ==
    InteriorDatabase_set(db, PREFIX_password \o PasswordEntry_get_name(entry),
                         EntryTag_Password, FieldAtlas_serialize(entry))

\* entry.get_name() unwraps: an entry without a name field panics
InteriorDatabase_set_meta_entry(db, entry) ==
    LET named(name) ==
            IF ~name.ok THEN [ok |-> FALSE, v |-> db]
            ELSE [ok |-> TRUE,
                  v |-> InteriorDatabase_set(db, PREFIX_meta \o name.v,
                                             EntryTag_Meta, FieldAtlas_serialize(entry))]
    IN  named(MetaEntry_get_name(entry))

\* Option<entry>: [some, ok, v]; ok = FALSE when FieldAtlas::deserialize panics
InteriorDatabase_get(db, index_by_name_value) ==
    LET found(fa) == [some |-> TRUE, ok |-> fa.ok, v |-> fa.v]
    IN  IF index_by_name_value \in DOMAIN db.index_by_name
           /\ db.index_by_name[index_by_name_value] \in DOMAIN db.entries
        THEN found(FieldAtlas_deserialize(
                       db.entries[db.index_by_name[index_by_name_value]].value))
        ELSE [some |-> FALSE, ok |-> TRUE, v |-> EmptyMap]

InteriorDatabase_get_password_entry(db, name) == InteriorDatabase_get(db, PREFIX_password \o name)

InteriorDatabase_get_meta_entry(db, name) == InteriorDatabase_get(db, PREFIX_meta \o name)

\* get_meta_entry(name).unwrap().get_value()
MetaValue(db, name) ==
    LET value_of(e) ==
            IF e.some /\ e.ok THEN MetaEntry_get_value(e.v) ELSE [ok |-> FALSE, v |-> <<>>]
    IN  value_of(InteriorDatabase_get_meta_entry(db, name))

InteriorDatabase_serialize(db) == EntryAtlas_serialize(db.entries)

RECURSIVE InteriorDatabase_from_entries(_, _, _)
InteriorDatabase_from_entries(entries, keys, db) ==
    LET rest(id, r) ==
            IF ~r.ok THEN r ELSE InteriorDatabase_from_entries(entries, keys \ {id}, r.v)
        insert(id, entry) ==
            IF ~entry.ok THEN [ok |-> FALSE, v |-> db]
            ELSE IF entries[id].tag = EntryTag_Meta
            THEN rest(id, InteriorDatabase_set_meta_entry(db, entry.v))
            ELSE IF entries[id].tag = EntryTag_Password
            THEN rest(id, [ok |-> TRUE,
                           v |-> InteriorDatabase_set_password_entry(db, entry.v)])
            ELSE [ok |-> FALSE, v |-> db]
        first(id) == insert(id, FieldAtlas_deserialize(entries[id].value))
    IN  IF keys = {} THEN [ok |-> TRUE, v |-> db] ELSE first(MinOf(keys))

\* a rebuild that keeps the Meta records only
InteriorDatabase_from_entry_atlas_meta(entries) ==
    InteriorDatabase_from_entries(entries,
        {id \in DOMAIN entries : entries[id].tag = EntryTag_Meta}, InteriorDatabase_default)

InteriorDatabase_from_entry_atlas(entries) ==
    InteriorDatabase_from_entries(entries, DOMAIN entries, InteriorDatabase_default)

InteriorDatabase_deserialize(data) ==
    LET from(entry_atlas) ==
            IF ~entry_atlas.ok THEN [ok |-> FALSE, v |-> InteriorDatabase_default]
            ELSE InteriorDatabase_from_entry_atlas(entry_atlas.v)
    IN  from(EntryAtlas_deserialize(data))

\* a zeroize that clears the values and leaves the name index in place
InteriorDatabase_zeroize_values(db) ==
    [next_id |-> db.next_id,
     entries |-> [id \in DOMAIN db.entries |-> [tag |-> db.entries[id].tag, value |-> <<>>]],
     index_by_name |-> db.index_by_name]

\* Vec::zeroize on every value (zero the bytes, then clear), index taken and dropped
InteriorDatabase_zeroize(db) ==
    [next_id |-> db.next_id,
     entries |-> [id \in DOMAIN db.entries |-> [tag |-> db.entries[id].tag, value |-> <<>>]],
     index_by_name |-> EmptyMap]

\* the contents of the key strings at the moment zeroize drops them
InteriorDatabase_zeroize_keys(db) == {Zeros(Len(key)) : key \in DOMAIN db.index_by_name}

\* a reduction that keeps every record
meta_only_entries_all(entries, keys, idx, meta) == entries

\* Database::meta_only: the Meta records, keyed 1, 2, ... then rebuilt
RECURSIVE meta_only_entries(_, _, _, _)
meta_only_entries(entries, keys, idx, meta) ==
    IF keys = {} THEN meta
    ELSE LET id == MinOf(keys)
         IN  IF entries[id].tag = EntryTag_Meta
             THEN meta_only_entries(entries, keys \ {id}, idx + 1,
                      EntryAtlas_set(meta, idx, entries[id].tag, entries[id].value))
             ELSE meta_only_entries(entries, keys \ {id}, idx, meta)

\* a meta_only whose vault keeps the ids 1, 2, ... of the reduced atlas
Database_meta_only_keyed(db) ==
    LET shifted(r) ==
            [ok |-> r.ok,
             v |-> [next_id |-> r.v.next_id + 1,
                    entries |-> [id \in {i + 1 : i \in DOMAIN r.v.entries} |->
                                    r.v.entries[id - 1]],
                    index_by_name |-> [key \in DOMAIN r.v.index_by_name |->
                                          r.v.index_by_name[key] + 1]]]
    IN  shifted(InteriorDatabase_from_entry_atlas(
                    meta_only_entries(db.entries, DOMAIN db.entries, 1, EmptyMap)))

Database_meta_only(db) ==
    InteriorDatabase_from_entry_atlas(meta_only_entries(db.entries, DOMAIN db.entries, 1, EmptyMap))

(***************************************************************************)
(* secret.rs: SecretMemory, a memfd_secret region of `capacity` bytes with *)
(* a logical length                                                        *)
(***************************************************************************)
\* the page size reported by sysconf, scaled down; it exceeds KEY_SIZE
PageSize == 34

KEY_SIZE == 32

SALT_SIZE == 32

NONCE_SIZE == 24

\* a fresh memfd_secret region reads as zeros
SecretMemory_new(capacity) == [bytes |-> Zeros(capacity), length |-> 0]

SecretMemory_new_pages(num_pages) == SecretMemory_new(num_pages * PageSize)

\* usize::MAX, the width scaled down
UsizeMax == 1073741823

\* a write that stores the end of the last write as the length
SecretMemory_write_last(m, offset, data) ==
    IF offset > UsizeMax - Len(data) \/ offset + Len(data) > Len(m.bytes)
    THEN [ok |-> FALSE, v |-> m]
    ELSE [ok |-> TRUE,
          v |-> [bytes |-> [i \in 1..Len(m.bytes) |->
                               IF i > offset /\ i <= offset + Len(data) THEN data[i - offset]
                               ELSE m.bytes[i]],
                 length |-> offset + Len(data)]]

\* write once view() has mapped the region: checked_add, the capacity test,
\* copy_from_slice and fetch_max
SecretMemory_write(m, offset, data) ==
    IF offset > UsizeMax - Len(data) THEN [ok |-> FALSE, v |-> m]
    ELSE LET end == offset + Len(data)
         IN  IF end > Len(m.bytes) THEN [ok |-> FALSE, v |-> m]
             ELSE [ok |-> TRUE,
                   v |-> [bytes |-> [i \in 1..Len(m.bytes) |->
                                        IF i > offset /\ i <= end THEN data[i - offset]
                                        ELSE m.bytes[i]],
                          length |-> IF end > m.length THEN end ELSE m.length]]

\* the guard returned by read() spans the logical length only
SecretMemory_read(m) == SubSeq(m.bytes, 1, m.length)

\* a zeroize that clears the bytes and keeps the length
SecretMemory_zeroize_bytes(m) == [bytes |-> Zeros(Len(m.bytes)), length |-> m.length]

SecretMemory_zeroize(m) == [bytes |-> Zeros(Len(m.bytes)), length |-> 0]

(***************************************************************************)
(* persistence.rs: key derivation.  SHA3-256 and Argon2id are collision    *)
(* free in the model: the digest is an injective code of (password, salt,  *)
(* pepper), never zero, repeated over the KEY_SIZE bytes.                  *)
(***************************************************************************)
\* passwords the user may type, as opaque identifiers
Passwords == {1, 2}

\* the first byte of the salts getrandom may produce
SaltBytes == {1, 2}

\* the device pepper sealed by systemd-creds
DevicePepper == Repeat(1, 32)

KdfDigest(password, salt, pepper) ==
    Repeat(1 + password + 4 * salt[1] + 16 * pepper[1], KEY_SIZE)

\* master_key_derivation after load_pepper succeeded
master_key_derivation(password, salt, pepper) ==
    LET post_hash == KdfDigest(password, salt, pepper)
        master_key == SecretMemory_new_pages(1)
    IN  SecretMemory_write(master_key, 0, post_hash)

(***************************************************************************)
(* persistence.rs: base64, lz4 frame, XChaCha20-Poly1305                   *)
(***************************************************************************)
Base64Char(v) ==
    IF v < 26 THEN 65 + v
    ELSE IF v < 52 THEN 97 + (v - 26)
    ELSE IF v < 62 THEN 48 + (v - 52)
    ELSE IF v = 62 THEN 43 ELSE 47

Base64Val(c) ==
    IF c \in 65..90 THEN c - 65
    ELSE IF c \in 97..122 THEN c - 97 + 26
    ELSE IF c \in 48..57 THEN c - 48 + 52
    ELSE IF c = 43 THEN 62
    ELSE IF c = 47 THEN 63 ELSE 0

Base64Pad == 61

to_base64(msg) ==
    LET n == Len(msg)
        At(i) == IF i <= n THEN msg[i] ELSE 0
    IN  [j \in 1..(4 * ((n + 2) \div 3)) |->
            LET g == (j - 1) \div 4
                k == (j - 1) % 4
                b0 == At(3 * g + 1)
                b1 == At(3 * g + 2)
                b2 == At(3 * g + 3)
            IN  IF k = 0 THEN Base64Char(b0 \div 4)
                ELSE IF k = 1 THEN Base64Char((b0 % 4) * 16 + b1 \div 16)
                ELSE IF k = 2 THEN (IF 3 * g + 2 > n THEN Base64Pad
                                    ELSE Base64Char((b1 % 16) * 4 + b2 \div 64))
                ELSE (IF 3 * g + 3 > n THEN Base64Pad ELSE Base64Char(b2 % 64))]

\* Base64::decode_vec(..).unwrap()
from_base64(msg_enc) ==
    LET n == Len(msg_enc)
        pad == IF n >= 1 /\ msg_enc[n] = Base64Pad
               THEN (IF n >= 2 /\ msg_enc[n - 1] = Base64Pad THEN 2 ELSE 1)
               ELSE 0
        IsAlpha(c) == c \in 65..90 \/ c \in 97..122 \/ c \in 48..57 \/ c = 43 \/ c = 47
        valid == /\ n % 4 = 0
                 /\ \A i \in 1..(n - pad) : IsAlpha(msg_enc[i])
        V(i) == IF i <= n - pad THEN Base64Val(msg_enc[i]) ELSE 0
    IN  IF ~valid THEN [ok |-> FALSE, v |-> <<>>]
        ELSE [ok |-> TRUE,
              v |-> [i \in 1..(3 * (n \div 4) - pad) |->
                        LET g == (i - 1) \div 3
                            k == (i - 1) % 3
                        IN  IF k = 0 THEN V(4 * g + 1) * 4 + V(4 * g + 2) \div 16
                            ELSE IF k = 1 THEN (V(4 * g + 2) % 16) * 16 + V(4 * g + 3) \div 4
                            ELSE (V(4 * g + 3) % 4) * 64 + V(4 * g + 4)]]

\* the lz4 frame: magic number, the block, end mark
LZ4_MAGIC == <<4, 34, 77, 24>>

LZ4_ENDMARK == <<0, 0, 0, 0>>

compress(msg) == LZ4_MAGIC \o msg \o LZ4_ENDMARK

\* the result of io::copy is discarded: a frame that does not decode yields no bytes
decompress(msg_enc) ==
    LET n == Len(msg_enc)
    IN  IF n >= 8 /\ SubSeq(msg_enc, 1, 4) = LZ4_MAGIC /\ SubSeq(msg_enc, n - 3, n) = LZ4_ENDMARK
        THEN SubSeq(msg_enc, 5, n - 4)
        ELSE <<>>

\* the 24-byte nonce: the counter in little-endian order in the first 16 bytes
NonceBytes(num_nonce) ==
    [i \in 1..NONCE_SIZE |-> IF i = 1 THEN num_nonce % 256
                             ELSE IF i = 2 THEN (num_nonce \div 256) % 256 ELSE 0]

\* AEAD, symbolically: the sealed box names the key and the nonce it was sealed
\* under and opens under exactly that pair.  key is the guard of read():
\* a guard that is not KEY_SIZE long fails the try_into().unwrap().
encrypt(msg, key, nonce) ==
    IF Len(key) # KEY_SIZE THEN [ok |-> FALSE, v |-> <<>>]
    ELSE [ok |-> TRUE, v |-> <<key[1], nonce[1], nonce[2]>> \o msg]

\* Option<Vec<u8>>: ok = FALSE for the panic on the key, some = FALSE for None
decrypt(msg_enc, key, nonce) ==
    IF Len(key) # KEY_SIZE THEN [ok |-> FALSE, some |-> FALSE, v |-> <<>>]
    ELSE IF Len(msg_enc) >= 3 /\ SubSeq(msg_enc, 1, 3) = <<key[1], nonce[1], nonce[2]>>
    THEN [ok |-> TRUE, some |-> TRUE, v |-> SubSeq(msg_enc, 4, Len(msg_enc))]
    ELSE [ok |-> TRUE, some |-> FALSE, v |-> <<>>]

(***************************************************************************)
(* persistence.rs: the erasure-coded file.  A file is the sequence of its  *)
(* shard records [len, hash, data]; a shard's content is the term          *)
(* [rs, of]: rs = 0 for plain bytes of[1], rs = j for the j-th             *)
(* Reed-Solomon parity of the data shards of.  BLAKE3 is collision free:   *)
(* the digest is the content it was computed from, and no content hashes   *)
(* to the all-zero digest.                                                 *)
(***************************************************************************)
ERASURE_DATA_SHARDS == 8

ERASURE_PARITY_SHARDS == 4

ERASURE_TOTAL_SHARDS == ERASURE_DATA_SHARDS + ERASURE_PARITY_SHARDS

\* ERASURE_MIN_SHARD_SIZE, scaled down from 4096
MinShardSize == 2

Plain(bytes) == [rs |-> 0, of |-> <<bytes>>]

blake3_hash(content) == [zero |-> FALSE, digest |-> content]

ZeroHash == [zero |-> TRUE, digest |-> [rs |-> 0, of |-> <<>>]]

div_ceil(a, b) == (a + b - 1) \div b

encode_erasure(data) ==
    LET original_len == Len(data)
        shard_size == MaxOf({div_ceil(Len(data), ERASURE_DATA_SHARDS), MinShardSize})
        padded == data \o Zeros(shard_size * ERASURE_DATA_SHARDS - Len(data))
        chunks == [i \in 1..ERASURE_DATA_SHARDS |->
                      SubSeq(padded, (i - 1) * shard_size + 1, i * shard_size)]
        shards == [i \in 1..ERASURE_TOTAL_SHARDS |->
                      IF i <= ERASURE_DATA_SHARDS THEN Plain(chunks[i])
                      ELSE [rs |-> i - ERASURE_DATA_SHARDS, of |-> chunks]]
    IN  [i \in 1..ERASURE_TOTAL_SHARDS |->
            [len |-> original_len, hash |-> blake3_hash(shards[i]), data |-> shards[i]]]

RECURSIVE Flatten(_)
Flatten(chunks) == IF chunks = <<>> THEN <<>> ELSE Head(chunks) \o Flatten(Tail(chunks))

\* reconstruct_data of a code that tolerates one lost shard fewer
reconstruct_data_nine(present, shards) ==
    IF Cardinality(present) <= ERASURE_DATA_SHARDS THEN [ok |-> FALSE, v |-> <<>>]
    ELSE [ok |-> TRUE,
          v |-> [i \in 1..ERASURE_DATA_SHARDS |->
                    IF i \in present THEN shards[i].of[1]
                    ELSE LET p == MinOf({q \in present : q > ERASURE_DATA_SHARDS})
                         IN  shards[p].of[i]]]

\* ReedSolomon::reconstruct_data on the shards that passed the hash check:
\* an error with fewer than ERASURE_DATA_SHARDS of them, else every missing
\* data shard is rebuilt from the surviving ones
reconstruct_data(present, shards) ==
    IF Cardinality(present) < ERASURE_DATA_SHARDS THEN [ok |-> FALSE, v |-> <<>>]
    ELSE [ok |-> TRUE,
          v |-> [i \in 1..ERASURE_DATA_SHARDS |->
                    IF i \in present THEN shards[i].of[1]
                    ELSE LET p == MinOf({q \in present : q > ERASURE_DATA_SHARDS})
                         IN  shards[p].of[i]]]

\* a file whose length is not that of ERASURE_TOTAL_SHARDS records splits into
\* chunks that pass no hash check (or into none at all)
decode_erasure(encoded) ==
    IF Len(encoded) # ERASURE_TOTAL_SHARDS THEN [ok |-> FALSE, v |-> <<>>]
    ELSE LET present == {i \in 1..ERASURE_TOTAL_SHARDS :
                            blake3_hash(encoded[i].data) = encoded[i].hash}
             shards == [i \in 1..ERASURE_TOTAL_SHARDS |-> encoded[i].data]
             rs == reconstruct_data(present, shards)
         IN  IF ~rs.ok THEN [ok |-> FALSE, v |-> <<>>]
             ELSE LET original_len == encoded[MinOf(present)].len
                      recovered == Flatten(rs.v)
                  IN  [ok |-> TRUE,
                       v |-> IF original_len < Len(recovered)
                             THEN SubSeq(recovered, 1, original_len) ELSE recovered]

\* a shard record overwritten with zero bytes
ZeroedRecord(rec) ==
    [len |-> 0, hash |-> ZeroHash,
     data |-> Plain(Zeros(Len(rec.data.of[1])))]

(***************************************************************************)
(* persistence.rs: load.  A stored copy is [exists, data].  The result of  *)
(* a load is [ok, db, key] with the bookkeeping the properties refer to:   *)
(* kdf, the number of completed key derivations; dec, the copies whose     *)
(* payload was passed to decrypt; dropped, the contents of the             *)
(* SecretMemory regions dropped while the panic unwinds.                   *)
(***************************************************************************)
NoFile == [exists |-> FALSE, data |-> <<>>]

File(data) == [exists |-> TRUE, data |-> data]

NoKey == [bytes |-> <<>>, length |-> 0]

LoadPanic(kdf, dec, dropped) ==
    [ok |-> FALSE, db |-> InteriorDatabase_default, key |-> NoKey,
     kdf |-> kdf, dec |-> dec, sel |-> "none", dropped |-> dropped]

\* Database::new(master_key) followed by the five set_meta_entry calls
new_db(db_name, password, pepper, now, salt) ==
    LET filled(master_key, db) ==
            IF ~master_key.ok THEN LoadPanic(0, <<>>, {})
            ELSE [ok |-> TRUE, db |-> db, key |-> master_key.v,
                  kdf |-> 1, dec |-> <<>>, sel |-> "new", dropped |-> {}]
        with_ts(db, created_ts) ==
            InteriorDatabase_set_meta_entry(
                InteriorDatabase_set_meta_entry(db, MetaEntry_new(STR_created_ts, created_ts)).v,
                MetaEntry_new(STR_modified_ts, created_ts)).v
        with_salt ==
            InteriorDatabase_set_meta_entry(
                InteriorDatabase_set_meta_entry(
                    InteriorDatabase_set_meta_entry(InteriorDatabase_default,
                        MetaEntry_new(STR_db_name, db_name)).v,
                    MetaEntry_new(STR_nonce, <<48>>)).v,
                MetaEntry_new(STR_salt, to_base64(salt))).v
    IN  IF ~pepper.ok THEN LoadPanic(0, <<>>, {})
        ELSE filled(master_key_derivation(password, salt, pepper.v),
                    with_ts(with_salt, to_string(now)))

db_envelope_from_vec(encoded) ==
    LET from(bin) ==
            IF ~bin.ok THEN [ok |-> FALSE, v |-> InteriorDatabase_default]
            ELSE InteriorDatabase_deserialize(bin.v)
    IN  from(decode_erasure(encoded))

\* the nonce counter and the salt of the public metadata
parse_decryption_parameters(db_envelope) ==
    LET params(pre_nonce, salt) ==
            IF pre_nonce.ok /\ salt.ok /\ Len(salt.v) = SALT_SIZE
            THEN [ok |-> TRUE, nonce |-> pre_nonce.v, salt |-> salt.v]
            ELSE [ok |-> FALSE, nonce |-> 0, salt |-> <<>>]
        parsed(nonce_str, salt_str) ==
            IF nonce_str.ok /\ salt_str.ok
            THEN params(parse(nonce_str.v), from_base64(salt_str.v))
            ELSE [ok |-> FALSE, nonce |-> 0, salt |-> <<>>]
    IN  parsed(MetaValue(db_envelope, STR_nonce), MetaValue(db_envelope, STR_salt))

\* copy names the stored copy the envelope came from
db_from_envelope(db_envelope, master_key, nonce, copy, kdf) ==
    LET loaded(db_core) ==
            IF ~db_core.ok THEN LoadPanic(kdf, <<copy>>, {master_key.bytes})
            ELSE [ok |-> TRUE, db |-> db_core.v, key |-> master_key,
                  kdf |-> kdf, dec |-> <<copy>>, sel |-> copy, dropped |-> {}]
        decrypted(db_compressed_bin) ==
            IF ~db_compressed_bin.ok \/ ~db_compressed_bin.some
            THEN LoadPanic(kdf, <<copy>>, {master_key.bytes})
            ELSE loaded(InteriorDatabase_deserialize(decompress(db_compressed_bin.v)))
        decoded(db_encrypted_bin) ==
            IF ~db_encrypted_bin.ok THEN LoadPanic(kdf, <<>>, {master_key.bytes})
            ELSE decrypted(decrypt(db_encrypted_bin.v, SecretMemory_read(master_key),
                                   NonceBytes(nonce)))
        payload(db_str) ==
            IF ~db_str.ok THEN LoadPanic(kdf, <<>>, {master_key.bytes})
            ELSE decoded(from_base64(db_str.v))
    IN  payload(MetaValue(db_envelope, STR_db))

db_from_vec(encoded, password, pepper, copy) ==
    LET keyed(db_envelope, nonce, master_key) ==
            IF ~master_key.ok THEN LoadPanic(0, <<>>, {})
            ELSE db_from_envelope(db_envelope, master_key.v, nonce, copy, 1)
        parsed(db_envelope, params) ==
            IF ~params.ok \/ ~pepper.ok THEN LoadPanic(0, <<>>, {})
            ELSE keyed(db_envelope, params.nonce,
                       master_key_derivation(password, params.salt, pepper.v))
        opened(db_envelope) ==
            IF ~db_envelope.ok THEN LoadPanic(0, <<>>, {})
            ELSE parsed(db_envelope.v, parse_decryption_parameters(db_envelope.v))
    IN  opened(db_envelope_from_vec(encoded))

\* a comparison that sends every load with two copies to the local one
local_always(ts_local, ts_remote) == TRUE

\* if ts_local >= ts_remote
local_is_current(ts_local, ts_remote) == ts_local >= ts_remote

\* the branch of load taken when both copies exist
load_both(local, remote, password, pepper) ==
    LET selected(local_env, remote_env, params_local, params_remote, master_key,
                 ts_local, ts_remote) ==
            IF ~ts_local.ok \/ ~ts_remote.ok THEN LoadPanic(1, <<>>, {master_key.bytes})
            ELSE IF local_is_current(ts_local.v, ts_remote.v)
            THEN db_from_envelope(local_env, master_key, params_local.nonce, "local", 1)
            ELSE db_from_envelope(remote_env, master_key, params_remote.nonce, "remote", 1)
        stamped(local_env, remote_env, params_local, params_remote, master_key,
                str_local, str_remote) ==
            IF ~str_local.ok \/ ~str_remote.ok THEN LoadPanic(1, <<>>, {master_key.bytes})
            ELSE selected(local_env, remote_env, params_local, params_remote, master_key,
                          parse(str_local.v), parse(str_remote.v))
        keyed(local_env, remote_env, params_local, params_remote, master_key) ==
            IF ~master_key.ok THEN LoadPanic(0, <<>>, {})
            ELSE stamped(local_env, remote_env, params_local, params_remote, master_key.v,
                         MetaValue(local_env, STR_modified_ts),
                         MetaValue(remote_env, STR_modified_ts))
        parsed(local_env, remote_env, params_local, params_remote) ==
            IF ~params_local.ok \/ ~params_remote.ok \/ ~pepper.ok THEN LoadPanic(0, <<>>, {})
            ELSE keyed(local_env, remote_env, params_local, params_remote,
                       master_key_derivation(password, params_local.salt, pepper.v))
        opened(db_local_envelope, db_remote_envelope) ==
            IF ~db_local_envelope.ok \/ ~db_remote_envelope.ok THEN LoadPanic(0, <<>>, {})
            ELSE parsed(db_local_envelope.v, db_remote_envelope.v,
                        parse_decryption_parameters(db_local_envelope.v),
                        parse_decryption_parameters(db_remote_envelope.v))
    IN  opened(db_envelope_from_vec(local), db_envelope_from_vec(remote))

\* a load that opens each copy on its own before it compares them
load_every_copy(db_name, local, remote, password, pepper, now, salt) ==
    LET merged(l, r, both) ==
            [both EXCEPT !.kdf = l.kdf + r.kdf, !.dec = l.dec \o r.dec,
                         !.dropped = l.dropped \cup r.dropped]
    IN  IF ~remote.exists
        THEN (IF ~local.exists THEN new_db(db_name, password, pepper, now, salt)
              ELSE db_from_vec(local.data, password, pepper, "local"))
        ELSE (IF ~local.exists THEN db_from_vec(remote.data, password, pepper, "remote")
              ELSE merged(db_from_vec(local.data, password, pepper, "local"),
                          db_from_vec(remote.data, password, pepper, "remote"),
                          load_both(local.data, remote.data, password, pepper)))

\* load after download_db returned: local is the file at db_path, remote the download
load(db_name, local, remote, password, pepper, now, salt) ==
    IF ~remote.exists
    THEN (IF ~local.exists THEN new_db(db_name, password, pepper, now, salt)
          ELSE db_from_vec(local.data, password, pepper, "local"))
    ELSE (IF ~local.exists THEN db_from_vec(remote.data, password, pepper, "remote")
          ELSE load_both(local.data, remote.data, password, pepper))

(***************************************************************************)
(* persistence.rs: db_to_vec, one operator per lock acquisition            *)
(***************************************************************************)
\* db.set_meta_entry(MetaEntry::new(name, value)) under the write lock
Database_set_meta(db, name, value) ==
    InteriorDatabase_set_meta_entry(db, MetaEntry_new(name, value)).v

\* a counter that is read and not advanced
db_to_vec_num_nonce_stale(db) ==
    LET same(n) == IF n.ok THEN [ok |-> TRUE, v |-> n.v] ELSE [ok |-> FALSE, v |-> 0]
        parsed(nonce_str) ==
            IF nonce_str.ok THEN same(parse(nonce_str.v)) ELSE [ok |-> FALSE, v |-> 0]
    IN  parsed(MetaValue(db, STR_nonce))

\* get_meta_entry("nonce").unwrap().get_value().parse::<u128>().unwrap() + 1
db_to_vec_num_nonce(db) ==
    LET next(n) == IF n.ok THEN [ok |-> TRUE, v |-> n.v + 1] ELSE [ok |-> FALSE, v |-> 0]
        parsed(nonce_str) ==
            IF nonce_str.ok THEN next(parse(nonce_str.v)) ELSE [ok |-> FALSE, v |-> 0]
    IN  parsed(MetaValue(db, STR_nonce))

\* compress, then encrypt under the key read from the shared SecretMemory
db_to_vec_encrypt(db_core, master_key, num_nonce) ==
    encrypt(compress(db_core), SecretMemory_read(master_key), NonceBytes(num_nonce))

\* meta_only, the "db" entry, serialize, encode_erasure
db_to_vec_envelope(db, db_core_encrypted) ==
    LET encoded(db_envelope) ==
            IF ~db_envelope.ok THEN [ok |-> FALSE, v |-> <<>>]
            ELSE [ok |-> TRUE,
                  v |-> encode_erasure(InteriorDatabase_serialize(
                            Database_set_meta(db_envelope.v, STR_db,
                                              to_base64(db_core_encrypted))))]
    IN  encoded(Database_meta_only(db))

\* db_to_vec run without interruption: [ok, db, bin]
db_to_vec(db, master_key, now) ==
    LET enveloped(d2, db_bin) ==
            IF db_bin.ok THEN [ok |-> TRUE, db |-> d2, bin |-> db_bin.v]
            ELSE [ok |-> FALSE, db |-> d2, bin |-> <<>>]
        encrypted(d2, db_core_encrypted) ==
            IF db_core_encrypted.ok
            THEN enveloped(d2, db_to_vec_envelope(d2, db_core_encrypted.v))
            ELSE [ok |-> FALSE, db |-> d2, bin |-> <<>>]
        counted(d2, num_nonce) ==
            encrypted(d2, db_to_vec_encrypt(InteriorDatabase_serialize(d2), master_key,
                                            num_nonce))
        stamped(d1, num_nonce) ==
            IF num_nonce.ok
            THEN counted(Database_set_meta(d1, STR_nonce, to_string(num_nonce.v)), num_nonce.v)
            ELSE [ok |-> FALSE, db |-> d1, bin |-> <<>>]
        touched(d1) == stamped(d1, db_to_vec_num_nonce(d1))
    IN  touched(Database_set_meta(db, STR_modified_ts, to_string(now)))

(***************************************************************************)
(* The application: gui/state.rs around one vault, its save tasks, the     *)
(* file system under ~/.config/digisafe and the remote blob store.  The    *)
(* status line and the clipboard are presentation and are left out.        *)
(***************************************************************************)
\* the name of the one vault of the model, "v"
VaultName == <<118>>

\* the async save tasks that may be in flight at once
Tasks == {1, 2}

InodeIds == 1..5

\* IDLE_TIMEOUT in seconds, scaled down
IdleTimeout == 1

\* the clock stops advancing here
MaxTime == 1

\* saves started over the whole run
MaxSaves == 2

\* process crashes over the whole run
MaxCrashes == 1

\* vaults created over the whole run
MaxVaults == 1

VARIABLES
    app_state,              \* "Locked" or "Unlocked"
    db_password,            \* LockedState.db_password
    is_processing,          \* LockedState.is_processing
    last_interaction_time,  \* UnlockedState.last_interaction_time, -1 for None
    unlocked_at,            \* the time UnlockResult made the UnlockedState, -1 when Locked
    msg_lock,               \* a Message::Lock returned by Tick awaits delivery
    db,                     \* the InteriorDatabase behind Database.db
    master_key,             \* the SecretMemory behind Database.master_key
    load_task,              \* the task spawned by AttemptUnlock
    tasks,                  \* the tasks spawned by Save
    inodes,                 \* file contents: page cache and durable
    dir_cache,              \* the directory as the running system sees it
    dir_disk,               \* the directory as it is on disk
    remote,                 \* the object in the blob store
    now,                    \* the clock, in seconds
    enc_log,                \* every call of encrypt: key, nonce counter, plaintext
    released,               \* contents of the SecretMemory regions dropped so far
    dropped_keys,           \* contents of the index key strings dropped by zeroize
    saves,                  \* saves started
    crashes,                \* crashes so far
    vaults,                 \* vaults created so far, each under a fresh salt
    last_saved,             \* the vault as serialized by the save that last reached rename
    era,                    \* an erasure-coded file under test: [data, file, out]
    atlas,                  \* a FieldAtlas under test
    secret,                 \* a SecretMemory under test
    private_kv,             \* volatile::Database.private_kv
    ret                     \* what the last call on a component under test returned

unit_vars == <<atlas, secret, private_kv, ret>>

gui_vars ==
    <<app_state, db_password, is_processing, last_interaction_time, unlocked_at, msg_lock>>

fs_vars == <<inodes, dir_cache, dir_disk>>

log_vars == <<enc_log, released, dropped_keys, saves, crashes, vaults, last_saved, era, unit_vars>>

vars == <<app_state, db_password, is_processing, last_interaction_time, unlocked_at, msg_lock,
          db, master_key, load_task, tasks, inodes, dir_cache, dir_disk, remote, now,
          enc_log, released, dropped_keys, saves, crashes, vaults, last_saved, era, unit_vars>>

IdleTask ==
    [pc |-> "idle", db_name |-> <<>>, num_nonce |-> 0, db_core |-> <<>>,
     db_core_encrypted |-> <<>>, db_bin |-> <<>>, fd |-> 0, snap |-> InteriorDatabase_default,
     uploaded |-> FALSE, msg |-> ""]

IdleLoad ==
    [pc |-> "idle", password |-> 0, local |-> NoFile, remote |-> NoFile,
     res |-> LoadPanic(0, <<>>, {})]

NoEra == [data |-> <<>>, file |-> <<>>, out |-> [done |-> FALSE, ok |-> FALSE, v |-> <<>>]]

\* no call made yet
NoRet == [op |-> "none", ok |-> TRUE, v |-> <<>>]

FreshInode == [cache |-> <<>>, disk |-> <<>>]

NoDir == [tmp |-> 0, canon |-> 0]

\* the file a path names in the running system
FileAt(id) == IF id = 0 THEN NoFile ELSE File(inodes[id].cache)

CanonFile == FileAt(dir_cache.canon)

TempFile == FileAt(dir_cache.tmp)

\* inodes named by a directory entry or an open descriptor
Referenced(dc, dd, ts) == ({dc.tmp, dc.canon, dd.tmp, dd.canon} \cup {ts[t].fd : t \in Tasks}) \ {0}

Collect(ino, dc, dd, ts) ==
    [i \in InodeIds |-> IF i \in Referenced(dc, dd, ts) THEN ino[i] ELSE FreshInode]

\* a shard-record-sized hole left by a write past the end of a truncated file
ZeroRec == [len |-> 0, hash |-> ZeroHash, data |-> Plain(<<>>)]

WriteAt(content, off, bytes) ==
    [i \in 1..MaxOf({Len(content), off + Len(bytes)}) |->
        IF i > off /\ i <= off + Len(bytes) THEN bytes[i - off]
        ELSE IF i <= Len(content) THEN content[i] ELSE ZeroRec]

\* the Database is alive while the session or a save task holds a clone of it
Holders(app, ts) == (app = "Unlocked") \/ (\E t \in Tasks : ts[t].pc # "idle")

\* what Drop does to the region of a SecretMemory before the descriptor is closed:
\* SecretMemory implements no Drop, the region is released as it is
SecretMemory_drop(m) == m.bytes

\* the last clone going away drops the SecretMemory
DropIfUnheld(app, ts, k) ==
    released' = IF Holders(app, ts) THEN released ELSE released \cup {SecretMemory_drop(k)}

InitApp ==
    /\ app_state = "Locked"
    /\ db_password = 0
    /\ is_processing = FALSE
    /\ last_interaction_time = -1
    /\ unlocked_at = -1
    /\ msg_lock = FALSE
    /\ db = InteriorDatabase_default
    /\ master_key = NoKey
    /\ tasks = [t \in Tasks |-> IdleTask]
    /\ now = 0
    /\ enc_log = <<>>
    /\ released = {}
    /\ dropped_keys = {}
    /\ saves = 0
    /\ crashes = 0
    /\ vaults = 0
    /\ last_saved = InteriorDatabase_default
    /\ era = NoEra
    /\ atlas = EmptyMap
    /\ secret = NoKey
    /\ private_kv = EmptyMap
    /\ ret = NoRet

Init ==
    /\ InitApp
    /\ load_task = IdleLoad
    /\ inodes = [i \in InodeIds |-> FreshInode]
    /\ dir_cache = NoDir
    /\ dir_disk = NoDir
    /\ remote = NoFile

(***************************************************************************)
(* gui/state.rs: update_locked                                             *)
(***************************************************************************)
\* Message::DbPasswordChanged with one of the passwords of S
DbPasswordChangedIn(S) ==
    /\ app_state = "Locked"
    /\ \E new_password \in S :
          /\ new_password # db_password
          /\ db_password' = new_password
    /\ UNCHANGED <<app_state, is_processing, last_interaction_time, unlocked_at, msg_lock,
                   db, master_key, load_task, tasks, fs_vars, remote, now, log_vars>>

\* spawns persistence::load; the model follows one load at a time and starts
\* none while a save task of the previous session is still running
AttemptUnlock ==
    /\ app_state = "Locked"
    /\ load_task.pc \in {"idle", "panicked"}
    /\ \A t \in Tasks : tasks[t].pc = "idle"
    /\ is_processing' = TRUE
    /\ load_task' = [IdleLoad EXCEPT !.pc = "download", !.password = db_password]
    /\ UNCHANGED <<app_state, db_password, last_interaction_time, unlocked_at, msg_lock,
                   db, master_key, tasks, fs_vars, remote, now, log_vars>>

\* download_db: the object if the store answers 200, None otherwise; a failed
\* request is an unwrap on Err
LoadDownload ==
    /\ load_task.pc = "download"
    /\ \/ load_task' = [load_task EXCEPT !.pc = "run", !.remote = remote]
       \/ load_task' = [load_task EXCEPT !.pc = "panicked"]
    /\ UNCHANGED <<gui_vars, db, master_key, tasks, fs_vars, remote, now, log_vars>>

\* what systemd-creds may answer: the pepper, or a failure
PepperAnswers == {[ok |-> TRUE, v |-> DevicePepper], [ok |-> FALSE, v |-> <<>>]}

\* the rest of load, with the named answer of systemd-creds; the salt OsRng
\* yields for a new vault is one no vault had before
LoadRunWith(pepper) ==
    LET returned(r) ==
            /\ load_task' = [load_task EXCEPT
                                !.pc = IF r.ok THEN "done" ELSE "panicked",
                                !.local = CanonFile,
                                !.res = r]
            /\ released' = released \cup r.dropped
            /\ vaults' = IF r.sel = "new" THEN vaults + 1 ELSE vaults
    IN  /\ load_task.pc = "run"
        /\ (CanonFile.exists \/ load_task.remote.exists \/ vaults < MaxVaults)
        /\ returned(load(VaultName, CanonFile, load_task.remote, load_task.password,
                         pepper, now, Repeat(vaults + 1, SALT_SIZE)))
        /\ UNCHANGED <<gui_vars, db, master_key, tasks, fs_vars, remote, now,
                       enc_log, dropped_keys, saves, crashes, last_saved, era, unit_vars>>

LoadRun == \E pepper \in PepperAnswers : LoadRunWith(pepper)

\* Message::UnlockResult(db)
UnlockResult ==
    /\ load_task.pc = "done"
    /\ app_state = "Locked"
    /\ app_state' = "Unlocked"
    /\ last_interaction_time' = -1
    /\ unlocked_at' = now
    /\ db' = load_task.res.db
    /\ master_key' = load_task.res.key
    /\ load_task' = IdleLoad
    /\ db_password' = 0
    /\ is_processing' = FALSE
    /\ UNCHANGED <<msg_lock, tasks, fs_vars, remote, now, log_vars>>

(***************************************************************************)
(* gui/state.rs: update_unlocked                                           *)
(***************************************************************************)
\* Message::PasswordEntrySet with the form holding (name, password)
PasswordEntrySetWith(name, password) ==
    LET stored(old) ==
            IF old.some
            THEN InteriorDatabase_set_password_entry(db,
                     MapSet(old.v, PasswordField_Password, password))
            ELSE InteriorDatabase_set_password_entry(db, PasswordEntry_new(name, password))
    IN  /\ app_state = "Unlocked"
        /\ last_interaction_time' = now
        /\ unlocked_at' = unlocked_at
        /\ db' = IF name # <<>> THEN stored(InteriorDatabase_get_password_entry(db, name))
                 ELSE db
        /\ UNCHANGED <<app_state, db_password, is_processing, msg_lock, master_key, load_task,
                       tasks, fs_vars, remote, now, log_vars>>

\* Message::Save with at most `limit` save tasks in flight afterwards
SaveWith(limit) ==
    /\ app_state = "Unlocked"
    /\ saves < MaxSaves
    /\ Cardinality({t \in Tasks : tasks[t].pc # "idle"}) < limit
    /\ LET t == MinOf({u \in Tasks : tasks[u].pc = "idle"})
       IN  tasks' = [tasks EXCEPT ![t] = [IdleTask EXCEPT !.pc = "db_name"]]
    /\ last_interaction_time' = now
    /\ unlocked_at' = unlocked_at
    /\ saves' = saves + 1
    /\ UNCHANGED <<app_state, db_password, is_processing, msg_lock, db, master_key, load_task,
                   fs_vars, remote, now, enc_log, released, dropped_keys, crashes, vaults, last_saved, era, unit_vars>>

\* the user may press Save again while a save is running
Save == SaveWith(Cardinality(Tasks))

\* the user waits for a save to end before the next
SaveOne == SaveWith(1)

\* Message::SaveResult, delivered to whichever state the application is in
SaveResult(t) ==
    /\ tasks[t].pc = "result"
    /\ last_interaction_time' = IF app_state = "Unlocked" THEN now ELSE last_interaction_time
    /\ unlocked_at' = unlocked_at
    /\ LET ts == [tasks EXCEPT ![t] = IdleTask]
       IN  /\ tasks' = ts
           /\ DropIfUnheld(app_state, ts, master_key)
    /\ UNCHANGED <<app_state, db_password, is_processing, msg_lock, db, master_key, load_task,
                   fs_vars, remote, now, enc_log, dropped_keys, saves, crashes, vaults, last_saved, era, unit_vars>>

\* Message::Tick, one second after the previous one
Tick ==
    /\ app_state = "Unlocked"
    /\ now < MaxTime
    /\ now' = now + 1
    /\ msg_lock' = IF last_interaction_time # -1
                   THEN msg_lock \/ (now' - last_interaction_time >= IdleTimeout)
                   ELSE msg_lock
    /\ UNCHANGED <<app_state, db_password, is_processing, last_interaction_time, unlocked_at, db, master_key,
                   load_task, tasks, fs_vars, remote, log_vars>>

\* Message::Lock: db.zeroize(), then the session's Database is dropped
Lock ==
    /\ app_state = "Unlocked"
    /\ msg_lock
    /\ app_state' = "Locked"
    /\ db_password' = 0
    /\ is_processing' = FALSE
    /\ last_interaction_time' = -1
    /\ unlocked_at' = -1
    /\ msg_lock' = FALSE
    /\ master_key' = SecretMemory_zeroize(master_key)
    /\ db' = InteriorDatabase_zeroize(db)
    /\ dropped_keys' = InteriorDatabase_zeroize_keys(db)
    /\ DropIfUnheld("Locked", tasks, SecretMemory_zeroize(master_key))
    /\ UNCHANGED <<load_task, tasks, fs_vars, remote, now, enc_log, saves, crashes, vaults, last_saved, era, unit_vars>>

(***************************************************************************)
(* persistence.rs: save, one action per lock acquisition or system call of *)
(* the task.  A failed unwrap ends the task: no SaveResult is produced.    *)
(***************************************************************************)
\* the task ends; its clone of the Database is dropped
TaskEnds(t) ==
    LET ts == [tasks EXCEPT ![t] = IdleTask]
    IN  /\ tasks' = ts
        /\ DropIfUnheld(app_state, ts, master_key)

TaskStep(t, next) ==
    /\ tasks' = [tasks EXCEPT ![t] = next]
    /\ released' = released

\* save: db.get_meta_entry("db_name").unwrap().get_value()
SaveDbName(t) ==
    LET read(db_name) ==
            IF db_name.ok
            THEN TaskStep(t, [tasks[t] EXCEPT !.pc = "modified_ts", !.db_name = db_name.v])
            ELSE TaskEnds(t)
    IN  /\ tasks[t].pc = "db_name"
        /\ read(MetaValue(db, STR_db_name))
        /\ UNCHANGED <<gui_vars, db, master_key, load_task, fs_vars, remote, now, enc_log,
                       dropped_keys, saves, crashes, vaults, last_saved, era, unit_vars>>

\* db_to_vec: set_meta_entry("modified_ts", now)
SaveModifiedTs(t) ==
    /\ tasks[t].pc = "modified_ts"
    /\ TaskStep(t, [tasks[t] EXCEPT !.pc = "read_nonce"])
    /\ db' = Database_set_meta(db, STR_modified_ts, to_string(now))
    /\ UNCHANGED <<gui_vars, master_key, load_task, fs_vars, remote, now, enc_log,
                   dropped_keys, saves, crashes, vaults, last_saved, era, unit_vars>>

\* db_to_vec: num_nonce = get_meta_entry("nonce") + 1
SaveReadNonce(t) ==
    LET read(num_nonce) ==
            IF num_nonce.ok
            THEN TaskStep(t, [tasks[t] EXCEPT !.pc = "write_nonce", !.num_nonce = num_nonce.v])
            ELSE TaskEnds(t)
    IN  /\ tasks[t].pc = "read_nonce"
        /\ read(db_to_vec_num_nonce(db))
        /\ UNCHANGED <<gui_vars, db, master_key, load_task, fs_vars, remote, now, enc_log,
                       dropped_keys, saves, crashes, vaults, last_saved, era, unit_vars>>

\* db_to_vec: set_meta_entry("nonce", num_nonce)
SaveWriteNonce(t) ==
    /\ tasks[t].pc = "write_nonce"
    /\ TaskStep(t, [tasks[t] EXCEPT !.pc = "serialize"])
    /\ db' = Database_set_meta(db, STR_nonce, to_string(tasks[t].num_nonce))
    /\ UNCHANGED <<gui_vars, master_key, load_task, fs_vars, remote, now, enc_log,
                   dropped_keys, saves, crashes, vaults, last_saved, era, unit_vars>>

\* db_to_vec: db.serialize()
SaveSerialize(t) ==
    /\ tasks[t].pc = "serialize"
    /\ TaskStep(t, [tasks[t] EXCEPT !.pc = "encrypt",
                                    !.db_core = InteriorDatabase_serialize(db),
                                    !.snap = db])
    /\ UNCHANGED <<gui_vars, db, master_key, load_task, fs_vars, remote, now, enc_log,
                   dropped_keys, saves, crashes, vaults, last_saved, era, unit_vars>>

\* db_to_vec: compress and encrypt under the key read from the shared SecretMemory
SaveEncrypt(t) ==
    LET sealed(e) ==
            IF e.ok
            THEN /\ TaskStep(t, [tasks[t] EXCEPT !.pc = "envelope", !.db_core = <<>>,
                                                 !.db_core_encrypted = e.v])
                 /\ enc_log' = Append(enc_log, [key |-> SecretMemory_read(master_key),
                                                nonce |-> tasks[t].num_nonce,
                                                msg |-> tasks[t].db_core])
            ELSE /\ TaskEnds(t)
                 /\ enc_log' = enc_log
    IN  /\ tasks[t].pc = "encrypt"
        /\ sealed(db_to_vec_encrypt(tasks[t].db_core, master_key, tasks[t].num_nonce))
        /\ UNCHANGED <<gui_vars, db, master_key, load_task, fs_vars, remote, now, dropped_keys,
                       saves, crashes, vaults, last_saved, era, unit_vars>>

\* db_to_vec: meta_only, the "db" entry, serialize, encode_erasure
SaveEnvelope(t) ==
    LET built(db_bin) ==
            IF db_bin.ok
            THEN TaskStep(t, [tasks[t] EXCEPT !.pc = "create", !.db_core_encrypted = <<>>,
                                              !.db_bin = db_bin.v])
            ELSE TaskEnds(t)
    IN  /\ tasks[t].pc = "envelope"
        /\ built(db_to_vec_envelope(db, tasks[t].db_core_encrypted))
        /\ UNCHANGED <<gui_vars, db, master_key, load_task, fs_vars, remote, now, enc_log,
                       dropped_keys, saves, crashes, vaults, last_saved, era, unit_vars>>

\* the directory entry File::create opens for writing: the staging path
CreatePath == "tmp"

\* to_file: File::create(temp_path) truncates the staging file or makes a new one
SaveCreate(t) ==
    /\ tasks[t].pc = "create"
    /\ LET existing == dir_cache[CreatePath]
           id == IF existing # 0 THEN existing
                 ELSE MinOf(InodeIds \ Referenced(dir_cache, dir_disk, tasks))
       IN  /\ inodes' = [inodes EXCEPT ![id].cache = <<>>]
           /\ dir_cache' = [dir_cache EXCEPT ![CreatePath] = id]
           /\ TaskStep(t, [tasks[t] EXCEPT !.pc = "write", !.fd = id])
    /\ UNCHANGED <<gui_vars, db, master_key, load_task, dir_disk, remote, now, enc_log,
                   dropped_keys, saves, crashes, vaults, last_saved, era, unit_vars>>

\* the records the first write call of write_all accepts
FirstWrite(dat) == Len(dat) \div 2

\* to_file: write_all, first write call
SaveWrite(t) ==
    /\ tasks[t].pc = "write"
    /\ inodes' = [inodes EXCEPT ![tasks[t].fd].cache =
                      WriteAt(@, 0, SubSeq(tasks[t].db_bin, 1, FirstWrite(tasks[t].db_bin)))]
    /\ TaskStep(t, [tasks[t] EXCEPT !.pc = "write_rest"])
    /\ UNCHANGED <<gui_vars, db, master_key, load_task, dir_cache, dir_disk, remote, now,
                   enc_log, dropped_keys, saves, crashes, vaults, last_saved, era, unit_vars>>

\* to_file: write_all, the remaining bytes
SaveWriteRest(t) ==
    /\ tasks[t].pc = "write_rest"
    /\ inodes' = [inodes EXCEPT ![tasks[t].fd].cache =
                      WriteAt(@, FirstWrite(tasks[t].db_bin),
                              SubSeq(tasks[t].db_bin, FirstWrite(tasks[t].db_bin) + 1,
                                     Len(tasks[t].db_bin)))]
    /\ TaskStep(t, [tasks[t] EXCEPT !.pc = "sync"])
    /\ UNCHANGED <<gui_vars, db, master_key, load_task, dir_cache, dir_disk, remote, now,
                   enc_log, dropped_keys, saves, crashes, vaults, last_saved, era, unit_vars>>

\* a sync_all that returns before anything is durable
SyncedData_none(inode) == inode.disk

\* what sync_all makes durable
SyncedData(inode) == inode.cache

\* to_file: file.sync_all(), then the descriptor is closed
SaveSync(t) ==
    /\ tasks[t].pc = "sync"
    /\ LET ts == [tasks EXCEPT ![t] = [tasks[t] EXCEPT !.pc = "rename", !.fd = 0]]
       IN  /\ tasks' = ts
           /\ inodes' = Collect([inodes EXCEPT ![tasks[t].fd].disk = SyncedData(inodes[tasks[t].fd])],
                                dir_cache, dir_disk, ts)
    /\ UNCHANGED <<gui_vars, db, master_key, load_task, dir_cache, dir_disk, remote, now,
                   log_vars>>

\* to_file: fs::rename(temp_path, db_path).unwrap()
SaveRename(t) ==
    /\ tasks[t].pc = "rename"
    /\ IF dir_cache.tmp # 0
       THEN LET dc == [tmp |-> 0, canon |-> dir_cache.tmp]
            IN  /\ dir_cache' = dc
                /\ inodes' = Collect(inodes, dc, dir_disk, tasks)
                /\ TaskStep(t, [tasks[t] EXCEPT !.pc = "dirsync"])
                /\ last_saved' = tasks[t].snap
       ELSE /\ TaskEnds(t)
            /\ UNCHANGED <<dir_cache, inodes, last_saved>>
    /\ UNCHANGED <<gui_vars, db, master_key, load_task, dir_disk, remote, now, enc_log,
                   dropped_keys, saves, crashes, vaults, era, unit_vars>>

\* to_file: sync_all on the parent directory
SaveDirSync(t) ==
    /\ tasks[t].pc = "dirsync"
    /\ dir_disk' = dir_cache
    /\ inodes' = Collect(inodes, dir_cache, dir_cache, tasks)
    /\ TaskStep(t, [tasks[t] EXCEPT !.pc = "upload"])
    /\ UNCHANGED <<gui_vars, db, master_key, load_task, dir_cache, remote, now,
                   enc_log, dropped_keys, saves, crashes, vaults, last_saved, era, unit_vars>>

\* upload_db: the object is replaced; or the upload is answered with an error,
\* which upload_db returns like any other body and save drops; or a request
\* fails and the task panics.  save returns the same String in both returns.
SaveUpload(t) ==
    /\ tasks[t].pc = "upload"
    /\ \/ /\ remote' = File(tasks[t].db_bin)
          /\ TaskStep(t, [tasks[t] EXCEPT !.pc = "result", !.db_bin = <<>>,
                                          !.uploaded = TRUE, !.msg = "Database saved."])
       \/ /\ remote' = remote
          /\ TaskStep(t, [tasks[t] EXCEPT !.pc = "result", !.db_bin = <<>>,
                                          !.uploaded = FALSE, !.msg = "Database saved."])
       \/ /\ remote' = remote
          /\ TaskEnds(t)
    /\ UNCHANGED <<gui_vars, db, master_key, load_task, fs_vars, now, enc_log, dropped_keys,
                   saves, crashes, vaults, last_saved, era, unit_vars>>

(***************************************************************************)
(* The process ends                                                        *)
(***************************************************************************)
NewProcess ==
    /\ app_state' = "Locked"
    /\ db_password' = 0
    /\ is_processing' = FALSE
    /\ last_interaction_time' = -1
    /\ unlocked_at' = -1
    /\ msg_lock' = FALSE
    /\ db' = InteriorDatabase_default
    /\ master_key' = NoKey
    /\ load_task' = IdleLoad
    /\ tasks' = [t \in Tasks |-> IdleTask]

\* Message::CloseWindow with no task in flight: the process exits, the system runs on
CloseWindow ==
    /\ \A t \in Tasks : tasks[t].pc = "idle"
    /\ load_task.pc \in {"idle", "panicked"}
    /\ NewProcess
    /\ UNCHANGED <<fs_vars, remote, now, log_vars>>

\* what a file holds after a crash: what was synced, what was cached, or the
\* first part of the cached bytes where that extends what was synced
Survivors(inode) ==
    {inode.disk, inode.cache}
        \cup {SubSeq(inode.cache, 1, k) : k \in {j \in {FirstWrite(inode.cache)} :
                  /\ j >= Len(inode.disk)
                  /\ SubSeq(inode.cache, 1, Len(inode.disk)) = inode.disk}}

SurvivorsAt(id) == IF id = 0 THEN {<<>>} ELSE Survivors(inodes[id])

\* the process or the machine stops at any point: the directory is as last
\* synced or as cached, every file holds one of its survivors
Crash ==
    /\ crashes < MaxCrashes
    /\ crashes' = crashes + 1
    /\ NewProcess
    /\ \E dir \in {dir_disk, dir_cache} :
       \E in_tmp \in SurvivorsAt(dir.tmp), in_canon \in SurvivorsAt(dir.canon) :
          /\ dir_cache' = dir
          /\ dir_disk' = dir
          /\ inodes' = [i \in InodeIds |->
                           IF i = dir.tmp THEN [cache |-> in_tmp, disk |-> in_tmp]
                           ELSE IF i = dir.canon THEN [cache |-> in_canon, disk |-> in_canon]
                           ELSE FreshInode]
    /\ UNCHANGED <<remote, now, enc_log, released, dropped_keys, saves, vaults,
                   last_saved, era, unit_vars>>

TaskNext(t) ==
    \/ SaveDbName(t)
    \/ SaveModifiedTs(t)
    \/ SaveReadNonce(t)
    \/ SaveWriteNonce(t)
    \/ SaveSerialize(t)
    \/ SaveEncrypt(t)
    \/ SaveEnvelope(t)
    \/ SaveCreate(t)
    \/ SaveWrite(t)
    \/ SaveWriteRest(t)
    \/ SaveSync(t)
    \/ SaveRename(t)
    \/ SaveDirSync(t)
    \/ SaveUpload(t)
    \/ SaveResult(t)

(***************************************************************************)
(* Spec: one user, one password, saves that may overlap                    *)
(***************************************************************************)
DbPasswordChanged == DbPasswordChangedIn({1})

\* the user unlocks after typing the password
AttemptUnlockTyped == db_password # 0 /\ AttemptUnlock

PasswordEntrySet == PasswordEntrySetWith(<<97>>, <<120>>)

Next ==
    \/ DbPasswordChanged
    \/ AttemptUnlockTyped
    \/ LoadDownload
    \/ LoadRun
    \/ UnlockResult
    \/ PasswordEntrySet
    \/ Save
    \/ CloseWindow
    \/ \E t \in Tasks : TaskNext(t)

Spec == Init /\ [][Next]_vars

(***************************************************************************)
(* SpecErasure: encode_erasure, shard records overwritten with zeros,      *)
(* decode_erasure                                                          *)
(***************************************************************************)
EraData == {<<>>, <<7>>, <<0, 0, 5>>, [i \in 1..17 |-> i]}

app_vars == <<gui_vars, db, master_key, load_task, tasks, fs_vars, remote, now,
              enc_log, released, dropped_keys, saves, crashes, vaults, last_saved, unit_vars>>

InitErasure ==
    /\ InitApp
    /\ load_task = IdleLoad
    /\ inodes = [i \in InodeIds |-> FreshInode]
    /\ dir_cache = NoDir
    /\ dir_disk = NoDir
    /\ remote = NoFile

\* the file of one of the byte strings is produced
EraEncode ==
    /\ era = NoEra
    /\ \E data \in EraData :
          era' = [data |-> data, file |-> encode_erasure(data), out |-> NoEra.out]
    /\ UNCHANGED app_vars

\* one more shard record of the file is overwritten with zeros
EraZero ==
    /\ era.file # <<>>
    /\ \E i \in 1..ERASURE_TOTAL_SHARDS :
          /\ era.file[i] # ZeroedRecord(era.file[i])
          /\ era' = [era EXCEPT !.file[i] = ZeroedRecord(era.file[i]), !.out = NoEra.out]
    /\ UNCHANGED app_vars

\* decode_erasure on the file as it is now
EraDecode ==
    LET decoded(r) == era' = [era EXCEPT !.out = [done |-> TRUE, ok |-> r.ok, v |-> r.v]]
    IN  /\ era.file # <<>>
        /\ ~era.out.done
        /\ decoded(decode_erasure(era.file))
        /\ UNCHANGED app_vars

NextErasure == EraEncode \/ EraZero \/ EraDecode

SpecErasure == InitErasure /\ [][NextErasure]_vars

ZeroedRecords == {i \in 1..ERASURE_TOTAL_SHARDS : era.file[i].hash = ZeroHash}

\* C7: decode_erasure of an encoded file with at most ERASURE_PARITY_SHARDS of
\* its shard records zeroed returns the encoded bytes; with more records zeroed
\* it fails and returns nothing.
C7_ErasureTolerance ==
    era.out.done =>
        IF Cardinality(ZeroedRecords) <= ERASURE_PARITY_SHARDS
        THEN era.out.ok /\ era.out.v = era.data
        ELSE ~era.out.ok

\* four data shard records zeroed and the bytes still recovered
C7_FourZeroedRecovered ==
    /\ era.out.done
    /\ era.out.ok
    /\ Cardinality(ZeroedRecords) = ERASURE_PARITY_SHARDS
    /\ ZeroedRecords \subseteq 1..ERASURE_DATA_SHARDS
    /\ Len(era.data) > ERASURE_DATA_SHARDS
    /\ era.out.v = era.data

(***************************************************************************)
(* SpecLoad: unlock attempts on a device whose local file and whose remote *)
(* object are any two stored copies of the vault name                      *)
(***************************************************************************)
OkPepper == [ok |-> TRUE, v |-> DevicePepper]

\* a vault made under a password and a salt at time 0, with one entry
StoredVault(password, s) ==
    LET filled(v) ==
            [db |-> InteriorDatabase_set_password_entry(v.db,
                        PasswordEntry_new(<<97>>, <<120>>)),
             key |-> v.key]
    IN  filled(new_db(VaultName, password, OkPepper, 0, Repeat(s, SALT_SIZE)))

\* the file a save of it at time ts produces
StoredCopy(password, s, ts) ==
    LET saved(v) == File(db_to_vec(v.db, v.key, ts).bin)
    IN  saved(StoredVault(password, s))

StoredCopies ==
    {NoFile} \cup {StoredCopy(password, s, ts) :
                      password \in Passwords, s \in SaltBytes, ts \in {0, 1}}

InitLoad ==
    /\ InitApp
    /\ load_task = IdleLoad
    /\ \E local, object \in StoredCopies :
          /\ remote = object
          /\ dir_cache = [tmp |-> 0, canon |-> IF local.exists THEN 1 ELSE 0]
          /\ dir_disk = dir_cache
          /\ inodes = [i \in InodeIds |->
                          IF i = 1 THEN [cache |-> local.data, disk |-> local.data]
                          ELSE FreshInode]

DbPasswordTyped == DbPasswordChangedIn(Passwords)

NextLoad ==
    \/ DbPasswordTyped
    \/ AttemptUnlock
    \/ LoadDownload
    \/ LoadRun
    \/ UnlockResult

SpecLoad == InitLoad /\ [][NextLoad]_vars

LoadEnded == load_task.pc \in {"done", "panicked"}

BothCopies == load_task.local.exists /\ load_task.remote.exists

ModifiedTs(copy) ==
    parse(MetaValue(db_envelope_from_vec(copy.data).v, STR_modified_ts).v).v

\* the vault a copy holds, opened with the password of the load
Opened(copy) == db_from_vec(copy.data, load_task.password, OkPepper, "copy")

\* C4: a load whose decryption fails does not end in a panic: the failure
\* comes back to the caller, which clears is_processing and stays Locked.
C4_AuthFailureReturned ==
    ~(load_task.pc = "panicked" /\ load_task.res.dec # <<>>)

\* C5: when load returns with both copies present, it returns the local copy if
\* the local modified_ts is at least the remote one, and the remote copy if not.
C5_NewerCopyWins ==
    (load_task.pc = "done" /\ BothCopies) =>
        load_task.res.db =
            Opened(IF ModifiedTs(load_task.local) >= ModifiedTs(load_task.remote)
                   THEN load_task.local ELSE load_task.remote).db

\* the remote copy is newer, differs from the local one, and is what load returned
C5_RemoteLoaded ==
    LET differ(l, r) == l.ok /\ l.db # r.db /\ load_task.res.db = r.db
    IN  /\ load_task.pc = "done"
        /\ BothCopies
        /\ ModifiedTs(load_task.local) < ModifiedTs(load_task.remote)
        /\ differ(Opened(load_task.local), Opened(load_task.remote))

\* the copy the rules of load select
SelectedCopy ==
    IF ~load_task.remote.exists THEN "local"
    ELSE IF ~load_task.local.exists THEN "remote"
    ELSE IF ModifiedTs(load_task.local) >= ModifiedTs(load_task.remote) THEN "local"
    ELSE "remote"

\* C6: a load derives the key once and passes at most one payload to
\* decryption, the one of the selected copy.
C6_OneDerivationOneDecryption ==
    LoadEnded =>
        /\ load_task.res.kdf <= 1
        /\ load_task.pc = "done" => load_task.res.kdf = 1
        /\ Len(load_task.res.dec) <= 1
        /\ \A i \in 1..Len(load_task.res.dec) : load_task.res.dec[i] = SelectedCopy

\* both copies present and different, the local one selected and decrypted
C6_LocalOnlyDecrypted ==
    /\ load_task.pc = "done"
    /\ BothCopies
    /\ load_task.local # load_task.remote
    /\ load_task.res.kdf = 1
    /\ load_task.res.dec = <<"local">>

\* C10: every SecretMemory region that has been dropped held only zero bytes
\* when it was released.
C10_DroppedRegionsZeroed == \A r \in released : AllZero(r)

(***************************************************************************)
(* SpecSeq: one save at a time, the idle lock, and a crash at any point    *)
(***************************************************************************)
NextSeq ==
    \/ DbPasswordChanged
    \/ AttemptUnlockTyped
    \/ LoadDownload
    \/ LoadRun
    \/ UnlockResult
    \/ PasswordEntrySet
    \/ SaveOne
    \/ Tick
    \/ Lock
    \/ CloseWindow
    \/ Crash
    \/ \E t \in Tasks : TaskNext(t)

SpecSeq == Init /\ [][NextSeq]_vars

(***************************************************************************)
(* SpecRun: one save at a time, each left to finish; a session ends when   *)
(* the window is closed                                                    *)
(***************************************************************************)
\* what the entry form may hold: a name, "a" or "b", and a password, "x" or "y"
FormInputs == {<<<<97>>, <<120>>>>, <<<<97>>, <<121>>>>, <<<<98>>, <<121>>>>}

FormNames == {form[1] : form \in FormInputs}

PasswordEntrySetAny == \E form \in FormInputs : PasswordEntrySetWith(form[1], form[2])

NextRun ==
    \/ DbPasswordChanged
    \/ AttemptUnlockTyped
    \/ LoadDownload
    \/ LoadRun
    \/ UnlockResult
    \/ PasswordEntrySetAny
    \/ SaveOne
    \/ CloseWindow
    \/ \E t \in Tasks : TaskNext(t)

SpecRun == Init /\ [][NextRun]_vars

\* C1: no two calls of encrypt use the same key and the same nonce counter on
\* different plaintexts.
C1_NoNonceReuse ==
    \A i, j \in 1..Len(enc_log) :
        (i < j /\ enc_log[i].key = enc_log[j].key /\ enc_log[i].nonce = enc_log[j].nonce)
            => enc_log[i].msg = enc_log[j].msg

C3_RoundTrip ==
    (load_task.pc = "done" /\ last_saved # InteriorDatabase_default)
        => load_task.res.db = last_saved

\* two entries were set and saved, and a later load returned both
C3_TwoEntriesReturned ==
    LET same(a, b) ==
            /\ a.some /\ a.ok /\ PasswordEntry_get_password(a.v) = <<121>>
            /\ b.some /\ b.ok /\ PasswordEntry_get_password(b.v) = <<121>>
    IN  /\ load_task.pc = "done"
        /\ load_task.res.db = last_saved
        /\ same(InteriorDatabase_get_password_entry(load_task.res.db, <<97>>),
                InteriorDatabase_get_password_entry(load_task.res.db, <<98>>))

\* the canonical file as the running system sees it and as it is on disk
DurableCanon ==
    IF dir_disk.canon = 0 THEN NoFile ELSE File(inodes[dir_disk.canon].disk)

CanonViews == {CanonFile, DurableCanon}

\* C8: no step, a crash included, leaves at the canonical path anything but the
\* file that was there, in the cache or on disk, or the whole file to_file was
\* given, put there by the rename; create, write and sync touch the staging
\* path only.
C8_CanonicalWhole ==
    [][CanonViews' \subseteq
           CanonViews \cup {File(tasks[t].db_bin) : t \in {u \in Tasks : tasks[u].pc = "rename"}}]_vars

\* after a crash in the middle of write_all: a partial staging file, and the
\* whole previous file at the canonical path
C8_CrashedInWrite ==
    /\ crashes = 1
    /\ TempFile.exists
    /\ Len(TempFile.data) < ERASURE_TOTAL_SHARDS
    /\ CanonFile.exists
    /\ CanonFile = DurableCanon
    /\ db_envelope_from_vec(CanonFile.data).ok

\* the names a vault of the model can hold
PasswordNames == FormNames

MetaNames == {STR_db_name, STR_nonce, STR_salt, STR_created_ts, STR_modified_ts}

Zeroized ==
    /\ Len(master_key.bytes) = PageSize
    /\ AllZero(master_key.bytes)
    /\ master_key.length = 0
    /\ \A id \in DOMAIN db.entries : db.entries[id].value = <<>>
    /\ db.index_by_name = EmptyMap
    /\ \A key \in dropped_keys : AllZero(key)
    /\ \A name \in PasswordNames : ~InteriorDatabase_get_password_entry(db, name).some
    /\ \A name \in MetaNames : ~InteriorDatabase_get_meta_entry(db, name).some

MetaRecords(d) == {d.entries[id].value : id \in {i \in DOMAIN d.entries : d.entries[i].tag = EntryTag_Meta}}

\* every file and every buffer that holds an encoded file
StoredFiles ==
    {CanonFile, DurableCanon, TempFile, remote, load_task.remote}
        \cup {File(tasks[t].db_bin) : t \in Tasks}

\* C11: meta_only of the session's vault holds the Meta records of that vault,
\* each once, and no other record; and no file or buffer that decodes to an
\* envelope holds a record that is not of the Meta kind.
C11_EnvelopeMetaOnly ==
    LET reduced(env) ==
            /\ env.ok
            /\ \A id \in DOMAIN env.v.entries : env.v.entries[id].tag = EntryTag_Meta
            /\ MetaRecords(env.v) = MetaRecords(db)
            /\ Cardinality(DOMAIN env.v.entries) = Cardinality(MetaRecords(db))
        clean(env) ==
            env.ok => \A id \in DOMAIN env.v.entries : env.v.entries[id].tag = EntryTag_Meta
    IN  /\ reduced(Database_meta_only(db))
        /\ \A f \in StoredFiles : f.exists => clean(db_envelope_from_vec(f.data))

\* a vault with two password entries was saved: the file at the canonical path
\* decodes to the five metadata records and the "db" record
C11_SavedWithPasswords ==
    LET six(env) == env.ok /\ Cardinality(DOMAIN env.v.entries) = 6
    IN  /\ app_state = "Unlocked"
        /\ Cardinality({id \in DOMAIN db.entries : db.entries[id].tag = EntryTag_Password}) = 2
        /\ last_saved = db
        /\ CanonFile.exists
        /\ six(db_envelope_from_vec(CanonFile.data))

(***************************************************************************)
(* Byte strings of any length a 64-bit usize can hold.  A size is          *)
(* [hi, lo], standing for hi * 2^16 + lo with lo < 2^16; a wide byte       *)
(* string is a sequence of runs [b, n]: n copies of the byte b, adjacent   *)
(* runs of different bytes, no empty run.  Offsets count from 0 as the     *)
(* slices of the source do.                                                *)
(***************************************************************************)
SzNorm(hi, lo) == [hi |-> hi + lo \div 65536, lo |-> lo % 65536]

Sz(n) == SzNorm(0, n)

SzAdd(p, q) == SzNorm(p.hi + q.hi, p.lo + q.lo)

\* p - q for q <= p
SzSub(p, q) ==
    IF p.lo >= q.lo THEN [hi |-> p.hi - q.hi, lo |-> p.lo - q.lo]
    ELSE [hi |-> p.hi - q.hi - 1, lo |-> p.lo + 65536 - q.lo]

SzLt(p, q) == p.hi < q.hi \/ (p.hi = q.hi /\ p.lo < q.lo)

\* usize as u32
AsU32(p) == [hi |-> p.hi % 65536, lo |-> p.lo]

\* u32::to_le_bytes
U32LE_wide(p) == <<p.lo % 256, p.lo \div 256, p.hi % 256, p.hi \div 256>>

\* u32::from_le_bytes(...) as usize
FromU32LE_wide(b) == [hi |-> b[3] + 256 * b[4], lo |-> b[1] + 256 * b[2]]

WCat(x, y) ==
    IF x = <<>> THEN y
    ELSE IF y = <<>> THEN x
    ELSE IF x[Len(x)].b = y[1].b
    THEN SubSeq(x, 1, Len(x) - 1)
             \o <<[b |-> y[1].b, n |-> SzAdd(x[Len(x)].n, y[1].n)]>>
             \o Tail(y)
    ELSE x \o y

RECURSIVE WOf(_)
WOf(bytes) ==
    IF bytes = <<>> THEN <<>>
    ELSE WCat(<<[b |-> Head(bytes), n |-> Sz(1)]>>, WOf(Tail(bytes)))

RECURSIVE WLen(_)
WLen(w) == IF w = <<>> THEN Sz(0) ELSE SzAdd(w[1].n, WLen(Tail(w)))

\* w[p..]
RECURSIVE WDrop(_, _)
WDrop(w, p) ==
    IF p = Sz(0) \/ w = <<>> THEN w
    ELSE IF SzLt(p, w[1].n) THEN <<[b |-> w[1].b, n |-> SzSub(w[1].n, p)]>> \o Tail(w)
    ELSE WDrop(Tail(w), SzSub(p, w[1].n))

\* w[..p]
RECURSIVE WTake(_, _)
WTake(w, p) ==
    IF p = Sz(0) \/ w = <<>> THEN <<>>
    ELSE IF SzLt(p, w[1].n) THEN <<[b |-> w[1].b, n |-> p]>>
    ELSE <<w[1]>> \o WTake(Tail(w), SzSub(p, w[1].n))

\* w[from..to], in bounds
WSlice(w, from, to) == WTake(WDrop(w, from), SzSub(to, from))

\* w[p], in bounds
WAt(w, p) == WDrop(w, p)[1].b

\* the four bytes w[from..from + 4] as a plain sequence
WFour(w, from) == [i \in 1..4 |-> WAt(w, SzAdd(from, Sz(i - 1)))]

(***************************************************************************)
(* atlas.rs: FieldAtlas over wide byte strings                             *)
(***************************************************************************)
RECURSIVE FieldAtlas_deserialize_from_wide(_, _, _)
FieldAtlas_deserialize_from_wide(data, cursor, fields) ==
    LET sliced(field_type, from, to) ==
            IF SzLt(WLen(data), to) THEN [ok |-> FALSE, v |-> EmptyMap]
            ELSE FieldAtlas_deserialize_from_wide(data, to,
                     MapSet(fields, field_type, WSlice(data, from, to)))
        measured(field_type, from, len) == sliced(field_type, from, SzAdd(from, len))
    IN  IF ~SzLt(cursor, WLen(data)) THEN [ok |-> TRUE, v |-> fields]
        ELSE IF SzLt(WLen(data), SzAdd(cursor, Sz(5))) THEN [ok |-> FALSE, v |-> EmptyMap]
        ELSE measured(WAt(data, cursor), SzAdd(cursor, Sz(5)),
                      FromU32LE_wide(WFour(data, SzAdd(cursor, Sz(1)))))

FieldAtlas_deserialize_wide(data) == FieldAtlas_deserialize_from_wide(data, Sz(0), EmptyMap)

RECURSIVE FieldAtlas_serialize_keys_wide(_, _)
FieldAtlas_serialize_keys_wide(fields, keys) ==
    IF keys = {} THEN <<>>
    ELSE LET field_type == MinOf(keys)
         IN  WCat(WOf(<<field_type>> \o U32LE_wide(AsU32(WLen(fields[field_type])))),
                  WCat(fields[field_type],
                       FieldAtlas_serialize_keys_wide(fields, keys \ {field_type})))

FieldAtlas_serialize_wide(fields) == FieldAtlas_serialize_keys_wide(fields, DOMAIN fields)

(***************************************************************************)
(* SpecAtlas: a FieldAtlas filled by FieldAtlas::set                       *)
(***************************************************************************)
\* 2^32 bytes 0xFF: the shortest value whose length does not fit a u32
Huge == <<[b |-> 255, n |-> [hi |-> 65536, lo |-> 0]]>>

AtlasTags == {0, 1, 255}

\* empty, one byte, bytes that read as a field of their own, 2^32 bytes
AtlasValues == {<<>>, WOf(<<0>>), WOf(<<1, 0, 0, 0, 0>>), Huge}

InitAtlas ==
    /\ InitApp
    /\ load_task = IdleLoad
    /\ inodes = [i \in InodeIds |-> FreshInode]
    /\ dir_cache = NoDir
    /\ dir_disk = NoDir
    /\ remote = NoFile

\* FieldAtlas::set(field_type, value)
AtlasSet ==
    /\ \E field_type \in AtlasTags, value \in AtlasValues :
          /\ atlas' = MapSet(atlas, field_type, value)
          /\ ret' = [op |-> "set", ok |-> TRUE, v |-> <<field_type>>]
    /\ UNCHANGED <<gui_vars, db, master_key, load_task, tasks, fs_vars, remote, now,
                   enc_log, released, dropped_keys, saves, crashes, vaults, last_saved, era,
                   secret, private_kv>>

SpecAtlas == InitAtlas /\ [][AtlasSet]_vars

\* C14: deserialize of the serialized FieldAtlas returns the FieldAtlas: the
\* same tags, each with the same value.
C14_FieldAtlasRoundTrip ==
    FieldAtlas_deserialize_wide(FieldAtlas_serialize_wide(atlas)) = [ok |-> TRUE, v |-> atlas]

(***************************************************************************)
(* atlas.rs, entry.rs, database.rs over wide byte strings                  *)
(***************************************************************************)
RECURSIVE EntryAtlas_deserialize_from_wide(_, _, _, _)
EntryAtlas_deserialize_from_wide(data, cursor, id, entries) ==
    LET sliced(entry_type, from, to) ==
            IF SzLt(WLen(data), to) THEN [ok |-> FALSE, v |-> EmptyMap]
            ELSE EntryAtlas_deserialize_from_wide(data, to, id + 1,
                     EntryAtlas_set(entries, id, entry_type, WSlice(data, from, to)))
        measured(entry_type, from, len) == sliced(entry_type, from, SzAdd(from, len))
    IN  IF ~SzLt(cursor, WLen(data)) THEN [ok |-> TRUE, v |-> entries]
        ELSE IF SzLt(WLen(data), SzAdd(cursor, Sz(5))) THEN [ok |-> FALSE, v |-> EmptyMap]
        ELSE measured(WAt(data, cursor), SzAdd(cursor, Sz(5)),
                      FromU32LE_wide(WFour(data, SzAdd(cursor, Sz(1)))))

EntryAtlas_deserialize_wide(data) == EntryAtlas_deserialize_from_wide(data, Sz(0), 0, EmptyMap)

RECURSIVE EntryAtlas_serialize_keys_wide(_, _)
EntryAtlas_serialize_keys_wide(entries, keys) ==
    IF keys = {} THEN <<>>
    ELSE LET id == MinOf(keys)
         IN  WCat(WOf(<<entries[id].tag>> \o U32LE_wide(AsU32(WLen(entries[id].value)))),
                  WCat(entries[id].value,
                       EntryAtlas_serialize_keys_wide(entries, keys \ {id})))

EntryAtlas_serialize_wide(entries) == EntryAtlas_serialize_keys_wide(entries, DOMAIN entries)

\* Option<&str>: [some, v]
FieldAtlas_get_str_wide(fields, field_type) ==
    IF field_type \in DOMAIN fields
       /\ \A i \in 1..Len(fields[field_type]) : fields[field_type][i].b < 128
    THEN [some |-> TRUE, v |-> fields[field_type]]
    ELSE [some |-> FALSE, v |-> <<>>]

InteriorDatabase_set_password_entry_wide(this, entry) ==
    InteriorDatabase_set(this,
        WCat(WOf(PREFIX_password), FieldAtlas_get_str_wide(entry, PasswordField_Name).v),
        EntryTag_Password, FieldAtlas_serialize_wide(entry))

\* entry.get_name() unwraps: an entry without a name field panics
InteriorDatabase_set_meta_entry_wide(this, entry) ==
    LET named(name) ==
            IF ~name.some THEN [ok |-> FALSE, v |-> this]
            ELSE [ok |-> TRUE,
                  v |-> InteriorDatabase_set(this, WCat(WOf(PREFIX_meta), name.v),
                                             EntryTag_Meta, FieldAtlas_serialize_wide(entry))]
    IN  named(FieldAtlas_get_str_wide(entry, MetaField_Name))

\* Option<entry>: [some, ok, v]; ok = FALSE when FieldAtlas::deserialize panics
InteriorDatabase_get_wide(this, index_by_name_value) ==
    LET found(fa) == [some |-> TRUE, ok |-> fa.ok, v |-> fa.v]
    IN  IF index_by_name_value \in DOMAIN this.index_by_name
           /\ this.index_by_name[index_by_name_value] \in DOMAIN this.entries
        THEN found(FieldAtlas_deserialize_wide(
                       this.entries[this.index_by_name[index_by_name_value]].value))
        ELSE [some |-> FALSE, ok |-> TRUE, v |-> EmptyMap]

InteriorDatabase_get_password_entry_wide(this, name) ==
    InteriorDatabase_get_wide(this, WCat(WOf(PREFIX_password), name))

InteriorDatabase_get_meta_entry_wide(this, name) ==
    InteriorDatabase_get_wide(this, WCat(WOf(PREFIX_meta), name))

InteriorDatabase_serialize_wide(this) == EntryAtlas_serialize_wide(this.entries)

RECURSIVE InteriorDatabase_from_entries_wide(_, _, _)
InteriorDatabase_from_entries_wide(entries, keys, this) ==
    LET rest(id, r) ==
            IF ~r.ok THEN r ELSE InteriorDatabase_from_entries_wide(entries, keys \ {id}, r.v)
        insert(id, entry) ==
            IF ~entry.ok THEN [ok |-> FALSE, v |-> this]
            ELSE IF entries[id].tag = EntryTag_Meta
            THEN rest(id, InteriorDatabase_set_meta_entry_wide(this, entry.v))
            ELSE IF entries[id].tag = EntryTag_Password
            THEN rest(id, [ok |-> TRUE,
                           v |-> InteriorDatabase_set_password_entry_wide(this, entry.v)])
            ELSE [ok |-> FALSE, v |-> this]
        first(id) == insert(id, FieldAtlas_deserialize_wide(entries[id].value))
    IN  IF keys = {} THEN [ok |-> TRUE, v |-> this] ELSE first(MinOf(keys))

InteriorDatabase_deserialize_wide(data) ==
    LET from(entry_atlas) ==
            IF ~entry_atlas.ok THEN [ok |-> FALSE, v |-> InteriorDatabase_default]
            ELSE InteriorDatabase_from_entries_wide(entry_atlas.v, DOMAIN entry_atlas.v,
                                                    InteriorDatabase_default)
    IN  from(EntryAtlas_deserialize_wide(data))

(***************************************************************************)
(* SpecVault: an InteriorDatabase filled by set_password_entry and         *)
(* set_meta_entry                                                          *)
(***************************************************************************)
\* a text of 2^32 bytes, "xxx..."
HugeText == <<[b |-> 120, n |-> [hi |-> 65536, lo |-> 0]]>>

\* "a", "b"
VaultNames == {WOf(<<97>>), WOf(<<98>>)}

\* "x", "y" and the long text
VaultTexts == {WOf(<<120>>), WOf(<<121>>), HugeText}

\* set_password_entry with an entry of the name and the password
VaultSetPassword ==
    /\ \E name \in VaultNames, password \in VaultTexts :
          /\ db' = InteriorDatabase_set_password_entry_wide(db,
                        MapSet(MapSet(EmptyMap, PasswordField_Name, name),
                               PasswordField_Password, password))
          /\ ret' = [op |-> "set_password_entry", ok |-> TRUE, v |-> name]
    /\ UNCHANGED <<gui_vars, master_key, load_task, tasks, fs_vars, remote, now,
                   enc_log, released, dropped_keys, saves, crashes, vaults, last_saved, era,
                   atlas, secret, private_kv>>

\* set_meta_entry with MetaEntry::new(name, value)
VaultSetMeta ==
    LET stored(name, r) ==
            /\ db' = r.v
            /\ ret' = [op |-> "set_meta_entry", ok |-> r.ok, v |-> name]
    IN  /\ \E name \in VaultNames, value \in VaultTexts \ {HugeText} :
              stored(name, InteriorDatabase_set_meta_entry_wide(db,
                               MapSet(MapSet(EmptyMap, MetaField_Name, name),
                                      MetaField_Value, value)))
        /\ UNCHANGED <<gui_vars, master_key, load_task, tasks, fs_vars, remote, now,
                       enc_log, released, dropped_keys, saves, crashes, vaults, last_saved,
                       era, atlas, secret, private_kv>>

NextVault == VaultSetPassword \/ VaultSetMeta

SpecVault == InitAtlas /\ [][NextVault]_vars

\* the index key of a call: kind and name
KeyOf(call) ==
    WCat(WOf(IF call.op = "set_password_entry" THEN PREFIX_password ELSE PREFIX_meta), call.v)

\* what a set of the key makes of the vault before
Upsert(before, after, key) ==
    /\ \A id \in DOMAIN before.entries \ {after.index_by_name[key]} :
           id \in DOMAIN after.entries /\ after.entries[id] = before.entries[id]
    /\ \A other \in DOMAIN before.index_by_name :
           other \in DOMAIN after.index_by_name
               /\ after.index_by_name[other] = before.index_by_name[other]
    /\ IF key \in DOMAIN before.index_by_name
       THEN /\ after.next_id = before.next_id
            /\ DOMAIN after.entries = DOMAIN before.entries
            /\ DOMAIN after.index_by_name = DOMAIN before.index_by_name
       ELSE /\ after.index_by_name[key] = before.next_id
            /\ after.next_id = before.next_id + 1
            /\ DOMAIN after.entries = DOMAIN before.entries \cup {before.next_id}
            /\ DOMAIN after.index_by_name = DOMAIN before.index_by_name \cup {key}

\* C12: a set of a kind and name the vault holds keeps the id of that name,
\* the number of records and next_id; a set of a new kind and name takes
\* id = next_id and advances next_id by one.  No other record changes.
C12_UpsertReusesId == [][NextVault => Upsert(db, db', KeyOf(ret'))]_vars

\* the password entry "a", set first, was set again after two other names
C12_FirstNameSetAgain ==
    /\ ret.op = "set_password_entry"
    /\ ret.v = WOf(<<97>>)
    /\ db.next_id = 3
    /\ db.index_by_name[KeyOf(ret)] = 0
    /\ Cardinality(DOMAIN db.entries) = 3

\* C13: deserialize of the serialized vault returns a vault in which
\* get_password_entry and get_meta_entry return for every name what they
\* return in the vault that was serialized.
C13_VaultRoundTrip ==
    LET same(r) ==
            /\ r.ok
            /\ \A name \in VaultNames :
                   /\ InteriorDatabase_get_password_entry_wide(r.v, name)
                          = InteriorDatabase_get_password_entry_wide(db, name)
                   /\ InteriorDatabase_get_meta_entry_wide(r.v, name)
                          = InteriorDatabase_get_meta_entry_wide(db, name)
    IN  same(InteriorDatabase_deserialize_wide(InteriorDatabase_serialize_wide(db)))

(***************************************************************************)
(* SpecSecret: one SecretMemory region, written at any offset              *)
(***************************************************************************)
SecretCapacity == 3

SecretOffsets == 0..(SecretCapacity + 1) \cup {UsizeMax - 1, UsizeMax}

SecretData == {<<>>, <<1>>, <<2>>, <<1, 2>>, <<2, 1>>, <<1, 1, 1, 1>>}

\* SecretMemory::new(capacity)
SecretNew ==
    /\ \E capacity \in 0..SecretCapacity :
          /\ secret' = SecretMemory_new(capacity)
          /\ ret' = [op |-> "new", ok |-> TRUE, v |-> <<capacity>>]
    /\ UNCHANGED <<gui_vars, db, master_key, load_task, tasks, fs_vars, remote, now,
                   enc_log, released, dropped_keys, saves, crashes, vaults, last_saved, era,
                   atlas, private_kv>>

\* SecretMemory::write(offset, data); view() fails when mmap does
SecretWrite ==
    LET written(offset, data, r) ==
            /\ secret' = r.v
            /\ ret' = [op |-> "write", ok |-> r.ok, v |-> <<offset, Len(data)>>]
    IN  /\ \E offset \in SecretOffsets, data \in SecretData, mapped \in BOOLEAN :
              IF mapped THEN written(offset, data, SecretMemory_write(secret, offset, data))
              ELSE written(offset, data, [ok |-> FALSE, v |-> secret])
        /\ UNCHANGED <<gui_vars, db, master_key, load_task, tasks, fs_vars, remote, now,
                       enc_log, released, dropped_keys, saves, crashes, vaults, last_saved,
                       era, atlas, private_kv>>

\* SecretMemory::zeroize
SecretZeroize ==
    /\ secret' = SecretMemory_zeroize(secret)
    /\ ret' = [op |-> "zeroize", ok |-> TRUE, v |-> <<>>]
    /\ UNCHANGED <<gui_vars, db, master_key, load_task, tasks, fs_vars, remote, now,
                   enc_log, released, dropped_keys, saves, crashes, vaults, last_saved, era,
                   atlas, private_kv>>

NextSecret == SecretNew \/ SecretWrite \/ SecretZeroize

SpecSecret == InitAtlas /\ [][NextSecret]_vars

\* what write(offset, len bytes) returning `call` makes of the region before
WriteContract(before, after, call) ==
    LET offset == call.v[1]
        len == call.v[2]
    IN  /\ (offset > UsizeMax - len \/ offset + len > Len(before.bytes)) => ~call.ok
        /\ ~call.ok => after = before
        /\ call.ok =>
              /\ after.length = MaxOf({before.length, offset + len})
              /\ after.length <= Len(after.bytes)
              /\ Len(after.bytes) = Len(before.bytes)
              /\ \A i \in 1..Len(before.bytes) :
                     (i <= offset \/ i > offset + len) => after.bytes[i] = before.bytes[i]

\* C15: a write whose offset + length exceeds the capacity, or whose sum
\* overflows, returns an error and leaves bytes and length as they were; a
\* write that succeeds leaves length = max(old length, offset + length), at
\* most the capacity, and changes no byte outside its range.
C15_WriteBounds == [][SecretWrite => WriteContract(secret, secret', ret')]_vars

\* a write below the length of an earlier write succeeded and kept the length
C15_WroteBelowLength ==
    /\ ret.op = "write"
    /\ ret.ok
    /\ ret.v[2] > 0
    /\ secret.length > ret.v[1] + ret.v[2]

(***************************************************************************)
(* volatile.rs: Database.private_kv, a BTreeMap from key to EncryptedMem.  *)
(* EncryptedMem seals the bytes under a key of the process; encrypt is     *)
(* taken to succeed, as set_private takes it.                              *)
(***************************************************************************)
\* the sealed form of the bytes
EncryptedMem_encrypt(plaintext) ==
    [sealed |-> TRUE, ciphertext |-> [i \in 1..Len(plaintext) |-> 255 - plaintext[i]]]

\* Result<bytes>: [ok, v]; an EncryptedMem that was never sealed does not open
EncryptedMem_decrypt(encrypted) ==
    IF encrypted.sealed
    THEN [ok |-> TRUE,
          v |-> [i \in 1..Len(encrypted.ciphertext) |-> 255 - encrypted.ciphertext[i]]]
    ELSE [ok |-> FALSE, v |-> <<>>]

Database_set_private(kv, key, value) == MapSet(kv, key, EncryptedMem_encrypt(value))

\* a get that returns the stored bytes as they are
Database_get_private_raw(kv, key) ==
    IF key \in DOMAIN kv THEN [ok |-> TRUE, v |-> kv[key].ciphertext]
    ELSE [ok |-> FALSE, v |-> <<>>]

\* Option<String>: [ok, v], ok = FALSE for None
Database_get_private(kv, key) ==
    LET opened(bytes) ==
            IF bytes.ok /\ Utf8Valid(bytes.v) THEN bytes ELSE [ok |-> FALSE, v |-> <<>>]
    IN  IF key \in DOMAIN kv THEN opened(EncryptedMem_decrypt(kv[key]))
        ELSE [ok |-> FALSE, v |-> <<>>]

\* a remove that reports TRUE for every key
Database_remove_private_any(kv, key) ==
    [ok |-> TRUE, v |-> [k \in DOMAIN kv \ {key} |-> kv[k]]]

\* [ok, v]: ok is the bool returned, v the map left
Database_remove_private(kv, key) ==
    [ok |-> key \in DOMAIN kv, v |-> [k \in DOMAIN kv \ {key} |-> kv[k]]]

Database_contains_key_private(kv, key) == key \in DOMAIN kv

Database_len_private(kv) == Cardinality(DOMAIN kv)

Database_is_empty_private(kv) == DOMAIN kv = {}

(***************************************************************************)
(* SpecVolatile: calls on the private map of one volatile Database         *)
(***************************************************************************)
\* "", "a", "A"
PrivateKeys == {<<>>, <<97>>, <<65>>}

\* "", "x", "y"
PrivateValues == {<<>>, <<120>>, <<121>>}

VolatileRest ==
    UNCHANGED <<gui_vars, db, master_key, load_task, tasks, fs_vars, remote, now,
                enc_log, released, dropped_keys, saves, crashes, vaults, last_saved, era,
                atlas, secret>>

SetPrivate ==
    /\ \E key \in PrivateKeys, value \in PrivateValues :
          /\ private_kv' = Database_set_private(private_kv, key, value)
          /\ ret' = [op |-> "set_private", ok |-> TRUE, v |-> <<key, value>>]
    /\ VolatileRest

GetPrivate ==
    LET got(key, r) == ret' = [op |-> "get_private", ok |-> r.ok, v |-> <<key, r.v>>]
    IN  /\ \E key \in PrivateKeys : got(key, Database_get_private(private_kv, key))
        /\ UNCHANGED private_kv
        /\ VolatileRest

RemovePrivate ==
    LET removed(key, r) ==
            /\ private_kv' = r.v
            /\ ret' = [op |-> "remove_private", ok |-> r.ok, v |-> <<key>>]
    IN  /\ \E key \in PrivateKeys : removed(key, Database_remove_private(private_kv, key))
        /\ VolatileRest

ContainsKeyPrivate ==
    /\ \E key \in PrivateKeys :
          ret' = [op |-> "contains_key_private",
                  ok |-> Database_contains_key_private(private_kv, key), v |-> <<key>>]
    /\ UNCHANGED private_kv
    /\ VolatileRest

\* the count is returned in v as a sequence of one number
LenPrivate ==
    /\ ret' = [op |-> "len_private", ok |-> TRUE,
               v |-> <<(<<Database_len_private(private_kv)>>)>>]
    /\ UNCHANGED private_kv
    /\ VolatileRest

IsEmptyPrivate ==
    /\ ret' = [op |-> "is_empty_private", ok |-> Database_is_empty_private(private_kv),
               v |-> <<>>]
    /\ UNCHANGED private_kv
    /\ VolatileRest

NextVolatile ==
    \/ SetPrivate
    \/ GetPrivate
    \/ RemovePrivate
    \/ ContainsKeyPrivate
    \/ LenPrivate
    \/ IsEmptyPrivate

SpecVolatile == InitAtlas /\ [][NextVolatile]_vars

\* the text each key reads as: the value of the latest set_private of the
\* key, or nothing
Reads(kv) == [key \in PrivateKeys |-> Database_get_private(kv, key)]

\* what a call returning `call` makes of the readings before
ReadContract(before, after, call) ==
    /\ call.op = "set_private" =>
          after = [before EXCEPT ![call.v[1]] = [ok |-> TRUE, v |-> call.v[2]]]
    /\ call.op = "remove_private" =>
          after = [before EXCEPT ![call.v[1]] = [ok |-> FALSE, v |-> <<>>]]
    /\ call.op = "get_private" =>
          /\ after = before
          /\ call.ok = before[call.v[1]].ok
          /\ call.v[2] = before[call.v[1]].v
    /\ call.op \in {"contains_key_private", "len_private", "is_empty_private"} =>
          after = before

\* C17: get_private(k) returns the value of the latest set_private(k, v),
\* and None after remove_private(k) or before any set; keys compare
\* exactly, the empty key is a key, and a call on one key changes what no
\* other key reads as.
C17_GetReturnsLatestSet ==
    /\ Reads(EmptyMap) = [key \in PrivateKeys |-> [ok |-> FALSE, v |-> <<>>]]
    /\ [][NextVolatile => ReadContract(Reads(private_kv), Reads(private_kv'), ret')]_vars

\* the empty key reads "y" while "a" is set and "A" is not
C17_EmptyKeyRead ==
    /\ ret = [op |-> "get_private", ok |-> TRUE, v |-> <<(<<>>), (<<121>>)>>]
    /\ <<97>> \in DOMAIN private_kv
    /\ <<65>> \notin DOMAIN private_kv
    /\ Database_get_private(private_kv, <<97>>).v = <<120>>

\* what a call returning `call` makes of the set of keys before
KeysContract(before, after, call) ==
    /\ call.op = "set_private" => after = before \cup {call.v[1]}
    /\ call.op = "remove_private" =>
          /\ after = before \ {call.v[1]}
          /\ call.ok = (call.v[1] \in before)
    /\ call.op = "len_private" => after = before /\ call.v[1][1] = Cardinality(before)
    /\ call.op = "is_empty_private" => after = before /\ call.ok = (Cardinality(before) = 0)
    /\ call.op = "contains_key_private" =>
          after = before /\ call.ok = (call.v[1] \in before)
    /\ call.op = "get_private" => after = before

\* C18: len_private is the number of distinct keys set and not removed,
\* is_empty_private holds exactly when that number is 0, and remove_private
\* returns true exactly when the key was present.
C18_LenCountsKeys ==
    [][NextVolatile => KeysContract(DOMAIN private_kv, DOMAIN private_kv', ret')]_vars

\* a key that was present was removed and one of two keys is left
C18_RemovedPresentKey ==
    /\ ret.op = "remove_private"
    /\ ret.ok
    /\ Database_len_private(private_kv) = 1
    /\ ~Database_is_empty_private(private_kv)

(***************************************************************************)
(* What a save reports                                                     *)
(***************************************************************************)
\* C16: the String a save returns tells a failed backup from a stored one:
\* no save whose upload was refused delivers the message of a save whose
\* upload was stored.
C16_BackupFailureReported ==
    \A t \in Tasks :
        (tasks[t].pc = "result" /\ ~tasks[t].uploaded) => tasks[t].msg # "Database saved."

(***************************************************************************)
(* Overlapping saves                                                       *)
(***************************************************************************)
\* the envelope names, in its "nonce" entry, the nonce its "db" entry was
\* sealed under
NamesItsNonce(db_envelope) ==
    LET agree(params, payload) ==
            /\ params.ok
            /\ payload.ok
            /\ Len(payload.v) >= 3
            /\ <<payload.v[2], payload.v[3]>> = SubSeq(NonceBytes(params.nonce), 1, 2)
        sealed(params, db_str) ==
            /\ db_str.ok
            /\ agree(params, from_base64(db_str.v))
    IN  sealed(parse_decryption_parameters(db_envelope), MetaValue(db_envelope, STR_db))

\* C19: every file at the canonical path or in the remote store carries in
\* its public metadata the nonce its payload was encrypted under, saves
\* overlapping or not.
C19_EnvelopeNonceIsPayloadNonce ==
    LET named(env) == env.ok => NamesItsNonce(env.v)
    IN  \A f \in {CanonFile, remote} : f.exists => named(db_envelope_from_vec(f.data))

\* the file is what encode_erasure makes of the bytes it decodes to
WholeFile(f) ==
    LET whole(bin) == bin.ok /\ encode_erasure(bin.v) = f.data
    IN  whole(decode_erasure(f.data))

\* C20: with saves overlapping, the canonical path holds the complete output
\* of one save, or the file that was there before: the staging path the
\* saves share never brings a truncated or mixed file into place.
C20_CanonicalIsOneSave == CanonFile.exists => WholeFile(CanonFile)

(***************************************************************************)
(* The key and the metadata of the copy load selects                       *)
(***************************************************************************)
\* the file of the copy the rules of load select
SelectedFile == IF SelectedCopy = "local" THEN load_task.local ELSE load_task.remote

\* the region master_key_derivation fills from the salt in the public
\* metadata of the copy
KeyOfCopy(copy) ==
    LET derived(params) ==
            master_key_derivation(load_task.password, params.salt, DevicePepper).v.bytes
    IN  derived(parse_decryption_parameters(db_envelope_from_vec(copy.data).v))

\* C21: with a local and a remote copy, the key under which the payload of
\* the selected copy is decrypted is derived from the salt in the public
\* metadata of that copy.
C21_KeyFromSelectedSalt ==
    LET used(key) ==
            IF load_task.res.ok THEN load_task.res.key.bytes = key
            ELSE key \in load_task.res.dropped
    IN  (LoadEnded /\ BothCopies /\ load_task.res.dec # <<>>) => used(KeyOfCopy(SelectedFile))

(***************************************************************************)
(* SpecTamper: unlock attempts where the remote object may be a stored     *)
(* copy whose public modified_ts was rewritten.  The envelope is plain     *)
(* text and the shard hashes are unkeyed, so anyone who can write the      *)
(* object can produce such a file.                                         *)
(***************************************************************************)
\* the copy with the public modified_ts set to ts, encoded again
Restamp(copy, ts) ==
    LET stamped(db_envelope) ==
            File(encode_erasure(InteriorDatabase_serialize(
                     Database_set_meta(db_envelope.v, STR_modified_ts, to_string(ts)))))
    IN  stamped(db_envelope_from_vec(copy.data))

RestampedCopies ==
    {Restamp(StoredCopy(password, 1, 0), ts) : password \in Passwords, ts \in {1, 2}}

InitTamper ==
    /\ InitApp
    /\ load_task = IdleLoad
    /\ \E local \in {NoFile} \cup {StoredCopy(password, 1, ts) :
                                        password \in Passwords, ts \in {0, 1}},
          object \in RestampedCopies \cup {StoredCopy(password, 1, 0) : password \in Passwords} :
          /\ remote = object
          /\ dir_cache = [tmp |-> 0, canon |-> IF local.exists THEN 1 ELSE 0]
          /\ dir_disk = dir_cache
          /\ inodes = [i \in InodeIds |->
                          IF i = 1 THEN [cache |-> local.data, disk |-> local.data]
                          ELSE FreshInode]

SpecTamper == InitTamper /\ [][NextLoad]_vars

\* C22: a copy that load returns has, in its public metadata, the
\* modified_ts that is stored inside its encrypted payload; a copy whose
\* two timestamps differ is not loaded.
C22_PublicTsIsSealedTs ==
    LET same(inner) == inner.ok /\ parse(inner.v).v = ModifiedTs(SelectedFile)
    IN  (load_task.pc = "done" /\ load_task.res.sel \in {"local", "remote"}) =>
            same(MetaValue(load_task.res.db, STR_modified_ts))

(***************************************************************************)
(* SpecHeader: decode_erasure of a file in which length headers of shard   *)
(* records were rewritten, the shard contents and their hashes intact      *)
(***************************************************************************)
\* the number of shard records whose header is rewritten
MaxAltered == 1

HeaderLens == {0, 1, 2, 40}

AlteredRecords == {i \in 1..ERASURE_TOTAL_SHARDS : era.file[i].len # Len(era.data)}

\* the length header of one shard record is overwritten
EraRelen ==
    /\ era.file # <<>>
    /\ Cardinality(AlteredRecords) < MaxAltered
    /\ \E i \in 1..ERASURE_TOTAL_SHARDS, len \in HeaderLens :
          /\ era.file[i].len # len
          /\ era' = [era EXCEPT !.file[i].len = len, !.out = NoEra.out]
    /\ UNCHANGED app_vars

NextHeader == EraEncode \/ EraRelen \/ EraDecode

SpecHeader == InitErasure /\ [][NextHeader]_vars

\* C23: with length headers altered and every shard content intact,
\* decode_erasure returns the bytes that were encoded or fails; it returns
\* no data of another length.
C23_LengthHeaderChecked ==
    era.out.done => (~era.out.ok \/ era.out.v = era.data)

(***************************************************************************)
(* The name index and the records of the vault                             *)
(***************************************************************************)
\* "<kind>\0<name>" of a record, from its kind byte and its name field
RecordKey(rec) ==
    LET keyed(fields) ==
            IF rec.tag = EntryTag_Meta
            THEN PREFIX_meta \o FieldAtlas_get_str(fields.v, MetaField_Name).v
            ELSE PREFIX_password \o FieldAtlas_get_str(fields.v, PasswordField_Name).v
    IN  keyed(FieldAtlas_deserialize(rec.value))

IndexConsistent(v) ==
    /\ \A key \in DOMAIN v.index_by_name :
           /\ v.index_by_name[key] \in DOMAIN v.entries
           /\ RecordKey(v.entries[v.index_by_name[key]]) = key
    /\ \A id \in DOMAIN v.entries :
           Cardinality({key \in DOMAIN v.index_by_name : v.index_by_name[key] = id}) = 1

\* C24: in every state of the vault, after set_password_entry,
\* set_meta_entry, deserialize, from_entry_atlas and zeroize, each index key
\* "<kind>\0<name>" leads to a record of that kind and name, and every
\* record is the target of exactly one index key.
C24_IndexMatchesRecords == IndexConsistent(db)

MetaIds(v) == {id \in DOMAIN v.entries : v.entries[id].tag = EntryTag_Meta}

\* the records of the reduced vault are the Meta records of the vault, in
\* their id order, numbered from first
NumberedFrom(first) ==
    LET rank(id) == Cardinality({j \in MetaIds(db) : j < id})
        numbered(env) ==
            /\ env.ok
            /\ DOMAIN env.v.entries = first..(first + Cardinality(MetaIds(db)) - 1)
            /\ \A id \in MetaIds(db) : env.v.entries[first + rank(id)] = db.entries[id]
    IN  numbered(Database_meta_only(db))

\* C28 as stated: the records of the vault meta_only returns carry the ids
\* 1, 2, 3, ... in the id order of the Meta records of the source vault.
C28_MetaOnlyIdsFromOne == NumberedFrom(1)

\* C28, amended: the records of the vault meta_only returns carry the ids
\* 0, 1, 2, ... in the id order of the Meta records of the source vault.
C28_MetaOnlyIdsFromZero == NumberedFrom(0)

\* an unlocked vault with password entries, reduced to its five Meta records
C28_ReducedToFive ==
    LET five(env) == env.ok /\ DOMAIN env.v.entries = 0..4 /\ env.v.next_id = 5
    IN  /\ app_state = "Unlocked"
        /\ \E id \in DOMAIN db.entries : db.entries[id].tag = EntryTag_Password
        /\ five(Database_meta_only(db))

(***************************************************************************)
(* The idle timeout                                                        *)
(***************************************************************************)
\* C27: a Tick at which IdleTimeout has elapsed since the later of the
\* unlock and the last message other than Tick returns Message::Lock, also
\* in a session without any interaction after the unlock.
C27_IdleTickLocks ==
    [][Tick =>
          (now' - MaxOf({unlocked_at, last_interaction_time}) >= IdleTimeout => msg_lock')]_vars

(***************************************************************************)
(* Lock while a save is in flight                                          *)
(***************************************************************************)
\* the serialized vault decodes, and no record of it is missing from the
\* index or emptied
Intact(db_core) ==
    LET full(v) ==
            /\ v.ok
            /\ IndexConsistent(v.v)
            /\ \A id \in DOMAIN v.v.entries : v.v.entries[id].value # <<>>
    IN  full(InteriorDatabase_deserialize(db_core))

\* the payload of the file is one of the sealed vaults
PayloadLogged(f) ==
    LET logged(payload) ==
            /\ payload.ok
            /\ \E i \in 1..Len(enc_log) :
                   encrypt(compress(enc_log[i].msg), enc_log[i].key,
                           NonceBytes(enc_log[i].nonce)) = payload
        opened(env) == env.ok /\ logged(from_base64(MetaValue(env.v, STR_db).v))
    IN  opened(db_envelope_from_vec(f.data))

\* C26: with zeroize run at any point of a save in flight, every vault the
\* save seals is intact, and the canonical path holds a whole file whose
\* payload is such a vault: a save that met the zeroized vault or the
\* zeroized key ended before it replaced the file.
C26_LockDuringSave ==
    /\ \A i \in 1..Len(enc_log) : Intact(enc_log[i].msg)
    /\ \A f \in CanonViews : f.exists => (WholeFile(f) /\ PayloadLogged(f))

\* Lock has run and a save that sealed its vault before is about to rename
C26_LockedBeforeRename ==
    /\ app_state = "Locked"
    /\ db.index_by_name = EmptyMap
    /\ \E t \in Tasks : tasks[t].pc = "rename"

(***************************************************************************)
(* SpecKdf: master_key_derivation step by step.  Every fallible call of    *)
(* it is unwrapped, so a failure leaves the function by a panic at that    *)
(* call with the buffers as they are then.  The digests are codes that     *)
(* are never zero, as in KdfDigest.                                        *)
(***************************************************************************)
\* the calls of master_key_derivation that can fail, and none of them failing
KdfFaults == {"none", "load_pepper", "hash_password_into", "new_pages", "write"}

KdfPasswords == 0..3

KdfSalts == 1..10

\* pre_hash = Sha3_256(salt, pepper, password)
KdfPreHash(password, salt, pepper) ==
    Repeat(1 + ((password + 4 * salt[1] + 5 * pepper[1]) % 255), KEY_SIZE)

\* main_hash = Argon2id(pre_hash, salt || pepper)
KdfMainHash(pre_hash, salt, pepper) ==
    Repeat(1 + ((pre_hash[1] + 7 * salt[1] + 11 * pepper[1]) % 255), KEY_SIZE)

\* [ok, key, left]: the SecretMemory returned, and pre_hash, main_hash,
\* pepper and post_hash as they are when the function is left; a buffer
\* that does not exist yet is <<>>
master_key_derivation_exit(password, salt, fault) ==
    LET pepper == DevicePepper
        pre_hash == KdfPreHash(password, salt, pepper)
        main_hash == KdfMainHash(pre_hash, salt, pepper)
        post_hash == KdfDigest(password, salt, pepper)
        wiped == Zeros(KEY_SIZE)
        written(key) ==
            IF fault = "write" \/ ~key.ok
            THEN [ok |-> FALSE, key |-> NoKey, left |-> <<wiped, wiped, wiped, post_hash>>]
            ELSE [ok |-> TRUE, key |-> key.v, left |-> <<wiped, wiped, wiped, wiped>>]
    IN  IF fault = "load_pepper"
        THEN [ok |-> FALSE, key |-> NoKey, left |-> <<(<<>>), (<<>>), (<<>>), (<<>>)>>]
        ELSE IF fault = "hash_password_into"
        THEN [ok |-> FALSE, key |-> NoKey, left |-> <<pre_hash, wiped, pepper, (<<>>)>>]
        ELSE IF fault = "new_pages"
        THEN [ok |-> FALSE, key |-> NoKey, left |-> <<wiped, wiped, wiped, post_hash>>]
        ELSE written(SecretMemory_write(SecretMemory_new_pages(1), 0, post_hash))

\* one call of master_key_derivation
KdfRun ==
    LET left(r) ==
            /\ secret' = r.key
            /\ ret' = [op |-> "master_key_derivation", ok |-> r.ok, v |-> r.left]
    IN  /\ \E password \in KdfPasswords, s \in KdfSalts, fault \in KdfFaults :
              left(master_key_derivation_exit(password, Repeat(s, SALT_SIZE), fault))
        /\ UNCHANGED <<gui_vars, db, master_key, load_task, tasks, fs_vars, remote, now,
                       enc_log, released, dropped_keys, saves, crashes, vaults, last_saved,
                       era, atlas, private_kv>>

\* the caller drops or zeroizes the key it was given
KdfKeyZeroize ==
    /\ secret # NoKey
    /\ secret' = SecretMemory_zeroize(secret)
    /\ ret' = [op |-> "zeroize", ok |-> TRUE, v |-> ret.v]
    /\ UNCHANGED <<gui_vars, db, master_key, load_task, tasks, fs_vars, remote, now,
                   enc_log, released, dropped_keys, saves, crashes, vaults, last_saved, era,
                   atlas, private_kv>>

NextKdf == KdfRun \/ KdfKeyZeroize

SpecKdf == InitAtlas /\ [][NextKdf]_vars

\* C29: on every exit of master_key_derivation, the return and every
\* failure, pre_hash, main_hash, pepper and post_hash hold zeros only; the
\* key survives in the SecretMemory alone.
C29_BuffersZeroedOnExit ==
    ret.op = "master_key_derivation" =>
        \A i \in 1..Len(ret.v) : AllZero(ret.v[i])

(***************************************************************************)
(* SpecPipe: the calls a save and a load make on the vault's bytes, in     *)
(* the order of the code, for persistence.rs and for persistent.rs.  ret   *)
(* holds the run: op the path, v the buffer and the calls made so far.     *)
(***************************************************************************)
\* the header of an Avro object container file, "Obj" 1
AVRO_MAGIC == <<79, 98, 106, 1>>

\* Writer::append of the one record: [ok, v]
into_avro(record) == [ok |-> TRUE, v |-> AVRO_MAGIC \o record]

\* Reader::new(..).unwrap() and the record read back
from_avro(avro_dat) ==
    IF Len(avro_dat) >= 4 /\ SubSeq(avro_dat, 1, 4) = AVRO_MAGIC
    THEN [ok |-> TRUE, v |-> SubSeq(avro_dat, 5, Len(avro_dat))]
    ELSE [ok |-> FALSE, v |-> <<>>]

\* persistence::db_to_vec, from the serialized vault to the "db" entry
persistence_save == <<"compress", "encrypt", "to_base64">>

\* persistence::db_from_envelope, from the "db" entry to the serialized vault
persistence_load == <<"from_base64", "decrypt", "decompress">>

\* persistent::save: OuterAvroDatabase::into_inner (from_outer), then
\* InnerAvroDatabase::into_vec
persistent_save == <<"into_avro", "encrypt", "to_base64", "into_avro", "compress">>

\* persistent::load: InnerAvroDatabase::from_vec, then
\* OuterAvroDatabase::from_inner (into_outer)
persistent_load == <<"decompress", "from_avro", "from_base64", "decrypt", "from_avro">>

PipeSteps(path) ==
    IF path = "persistence::save" THEN persistence_save
    ELSE IF path = "persistence::load" THEN persistence_load
    ELSE IF path = "persistent::save" THEN persistent_save
    ELSE persistent_load

SavePaths == {"persistence::save", "persistent::save"}

LoadPaths == {"persistence::load", "persistent::load"}

\* the save whose file a load reads
SaveOf(path) == IF path = "persistence::load" THEN "persistence::save" ELSE "persistent::save"

\* the serialized vaults the runs start from
PipePayloads == {<<>>, <<1>>, <<2>>, <<1, 2>>, <<2, 1>>, <<1, 1>>, <<2, 2>>}

PipeKey == Repeat(7, KEY_SIZE)

PipeNonce == NonceBytes(1)

\* one call on the buffer: [ok, v]
PipeCall(step, buf) ==
    LET opened(msg) == [ok |-> msg.ok /\ msg.some, v |-> msg.v]
    IN  IF step = "compress" THEN [ok |-> TRUE, v |-> compress(buf)]
        ELSE IF step = "decompress" THEN [ok |-> TRUE, v |-> decompress(buf)]
        ELSE IF step = "encrypt" THEN encrypt(buf, PipeKey, PipeNonce)
        ELSE IF step = "decrypt" THEN opened(decrypt(buf, PipeKey, PipeNonce))
        ELSE IF step = "to_base64" THEN [ok |-> TRUE, v |-> to_base64(buf)]
        ELSE IF step = "from_base64" THEN from_base64(buf)
        ELSE IF step = "into_avro" THEN into_avro(buf)
        ELSE from_avro(buf)

\* the buffer after the calls from the i-th on
RECURSIVE PipeRun(_, _, _)
PipeRun(steps, i, buf) ==
    IF i > Len(steps) THEN buf
    ELSE PipeRun(steps, i + 1, PipeCall(steps[i], buf).v)

\* a save starts from a serialized vault, a load from what its save stored
PipeStart ==
    /\ \E path \in SavePaths \cup LoadPaths, payload \in PipePayloads :
          ret' = [op |-> path, ok |-> TRUE,
                  v |-> <<IF path \in SavePaths THEN payload
                          ELSE PipeRun(PipeSteps(SaveOf(path)), 1, payload),
                          <<>>>>]
    /\ UNCHANGED <<gui_vars, db, master_key, load_task, tasks, fs_vars, remote, now,
                   enc_log, released, dropped_keys, saves, crashes, vaults, last_saved, era,
                   atlas, secret, private_kv>>

\* the next call of the path
PipeStep ==
    LET called(step, out) ==
            ret' = [op |-> ret.op, ok |-> out.ok, v |-> <<out.v, Append(ret.v[2], step)>>]
        next(steps, done) ==
            /\ done < Len(steps)
            /\ called(steps[done + 1], PipeCall(steps[done + 1], ret.v[1]))
    IN  /\ ret.op \in SavePaths \cup LoadPaths
        /\ ret.ok
        /\ next(PipeSteps(ret.op), Len(ret.v[2]))
        /\ UNCHANGED <<gui_vars, db, master_key, load_task, tasks, fs_vars, remote, now,
                       enc_log, released, dropped_keys, saves, crashes, vaults, last_saved,
                       era, atlas, secret, private_kv>>

NextPipe == PipeStart \/ PipeStep

SpecPipe == InitAtlas /\ [][NextPipe]_vars

\* C30: on both save paths the bytes are compressed immediately before they
\* are encrypted and nothing is compressed after the encryption; on both
\* load paths the bytes are decrypted before they are decompressed.
C30_CompressThenEncrypt ==
    LET calls == ret.v[2]
        saved == \A i \in 1..Len(calls) :
                    /\ calls[i] = "encrypt" => (i > 1 /\ calls[i - 1] = "compress")
                    /\ calls[i] = "compress" => \A j \in 1..(i - 1) : calls[j] # "encrypt"
        loaded == \A i \in 1..Len(calls) :
                     calls[i] = "decompress" => \E j \in 1..(i - 1) : calls[j] = "decrypt"
    IN  /\ ret.op \in SavePaths => saved
        /\ ret.op \in LoadPaths => loaded

====
